---------------------------- MODULE Spec2Model ----------------------------
(***************************************************************************)
(* A model of license-ledger-patterns: the normalizer of                   *)
(* CrossDatasetAnalyzer (normalize_addr, normalize_name, _parse_currency), *)
(* the single-dataset detectors of LicenseAnalyzer driven by the license   *)
(* command line (cli.py, reporter.py), and the loaders, the address        *)
(* clustering, the name matching, the agency concentration and the tax     *)
(* overlaps of CrossDatasetAnalyzer driven by analyze_datasets.py.         *)
(*                                                                         *)
(* Text is a sequence of one-character strings, so that upper(), strip()   *)
(* and the regular expressions of the source are computed character by     *)
(* character.  A missing value (pandas NaN / None) is the value NaN.       *)
(***************************************************************************)
EXTENDS Integers, Sequences, FiniteSets, TLC

VARIABLES
    pc,               \* position of the running entry point
    fin, fout,        \* normalizer: the raw field, and the results of successive calls
    args,             \* cli.py: the parsed command line
    data,             \* LicenseAnalyzer.data (the DataFrame, a sequence of rows)
    address_density,  \* cli.py main: result of analyze_address_density
    name_similarity,  \* cli.py main: result of analyze_name_similarity
    dba_patterns,     \* cli.py main: result of analyze_dba_patterns
    temporal,         \* cli.py main: result of analyze_temporal_clustering
    geographic,       \* cli.py main: result of analyze_geographic_concentration
    summary,          \* cli.py main: result of generate_summary_report
    full_report,      \* cli.py main: the text report
    json_file,        \* the file written by Reporter.export_to_json
    csv,              \* CrossDatasetAnalyzer: the three input files
    licenses,         \* CrossDatasetAnalyzer.licenses
    contracts,        \* CrossDatasetAnalyzer.contracts
    taxes,            \* CrossDatasetAnalyzer.taxes
    clustering,       \* result of CrossDatasetAnalyzer.analyze_address_clustering
    name_analysis,    \* result of CrossDatasetAnalyzer.analyze_name_similarity
    timing_analysis,  \* result of CrossDatasetAnalyzer.analyze_contract_timing
    agency_analysis,  \* result of CrossDatasetAnalyzer.analyze_agency_concentration
    tax_analysis,     \* result of CrossDatasetAnalyzer.analyze_tax_delinquent_overlaps
    results,          \* analyze_datasets.py main: the comprehensive report
    report,           \* analyze_datasets.py main: the formatted report
    written,          \* analyze_datasets.py main: the outputs written
    levenshtein,      \* whether "from Levenshtein import ratio" succeeds
    exit_code,        \* the exit status of the process, once it has ended
    stderr            \* the error messages printed

normVars  == <<fin, fout>>
cliVars   == <<args, data, address_density, name_similarity, dba_patterns,
               temporal, geographic, summary, full_report, json_file>>
crossVars == <<csv, licenses, contracts, taxes, clustering, name_analysis,
               timing_analysis, agency_analysis, tax_analysis, results, report, written>>
procVars  == <<levenshtein, exit_code, stderr>>
vars      == <<pc, normVars, cliVars, crossVars, procVars>>

\* The value of a variable the running entry point does not use.
Unused == <<>>

NormUnused == fin = Unused /\ fout = Unused

CliUnused ==
    /\ args = Unused /\ data = Unused /\ address_density = Unused
    /\ name_similarity = Unused /\ dba_patterns = Unused /\ temporal = Unused
    /\ geographic = Unused /\ summary = Unused /\ full_report = Unused
    /\ json_file = Unused

CrossUnused ==
    /\ csv = Unused /\ licenses = Unused /\ contracts = Unused
    /\ taxes = Unused /\ clustering = Unused
    /\ name_analysis = Unused /\ timing_analysis = Unused
    /\ agency_analysis = Unused /\ tax_analysis = Unused
    /\ results = Unused /\ report = Unused /\ written = {}

\* A process that has not ended has no exit status and has printed no error.
Started == exit_code = <<>> /\ stderr = <<>>

-----------------------------------------------------------------------------
(* Bounds of the model *)

\* Raw text fields are built by concatenating at most MaxParts fragments.
MaxParts == 3

-----------------------------------------------------------------------------
(* Characters and text *)

NaN == <<"NaN">>

isna(v) == v = NaN

LowerLetters == <<"a","b","c","d","e","f","g","h","i","j","k","l","m",
                  "n","o","p","q","r","s","t","u","v","w","x","y","z">>
UpperLetters == <<"A","B","C","D","E","F","G","H","I","J","K","L","M",
                  "N","O","P","Q","R","S","T","U","V","W","X","Y","Z">>
Digits == {"0","1","2","3","4","5","6","7","8","9"}

IsSpace(c) == c \in {" ", "\t", "\n"}

IsLetter(c) == \E i \in 1..26 : c = LowerLetters[i] \/ c = UpperLetters[i]

\* \w of the re module: letters, digits and the underscore
IsWordChar(c) == IsLetter(c) \/ c \in Digits \/ c = "_"

UpperChar(c) ==
    IF \E i \in 1..26 : c = LowerLetters[i]
    THEN UpperLetters[CHOOSE i \in 1..26 : c = LowerLetters[i]]
    ELSE c

\* str.upper()
upper(s) == [i \in 1..Len(s) |-> UpperChar(s[i])]

RECURSIVE lstrip(_)
lstrip(s) == IF s # <<>> /\ IsSpace(Head(s)) THEN lstrip(Tail(s)) ELSE s

RECURSIVE rstrip(_)
rstrip(s) ==
    IF s # <<>> /\ IsSpace(s[Len(s)]) THEN rstrip(SubSeq(s, 1, Len(s) - 1)) ELSE s

\* str.strip()
strip(s) == rstrip(lstrip(s))

\* re.sub(r'\s+', ' ', s): every maximal run of whitespace becomes one space
RECURSIVE CollapseSpaces(_)
CollapseSpaces(s) ==
    IF s = <<>> THEN <<>>
    ELSE IF IsSpace(Head(s)) THEN <<" ">> \o CollapseSpaces(lstrip(s))
    ELSE <<Head(s)>> \o CollapseSpaces(Tail(s))

\* Does pat occur in s at position i?
MatchesAt(s, pat, i) ==
    /\ i + Len(pat) - 1 <= Len(s)
    /\ \A k \in 1..Len(pat) : s[i + k - 1] = pat[k]

\* \bPAT\b at position i (PAT begins and ends with a word character)
WordAt(s, pat, i) ==
    /\ MatchesAt(s, pat, i)
    /\ (i = 1 \/ ~IsWordChar(s[i - 1]))
    /\ (i + Len(pat) > Len(s) \/ ~IsWordChar(s[i + Len(pat)]))

\* re.sub(r'\bPAT\b', repl, s), scanning s from position i: leftmost,
\* non-overlapping matches, boundaries taken in the text being scanned
RECURSIVE SubWordFrom(_, _, _, _)
SubWordFrom(s, pat, repl, i) ==
    IF i > Len(s) THEN <<>>
    ELSE IF WordAt(s, pat, i) THEN repl \o SubWordFrom(s, pat, repl, i + Len(pat))
    ELSE <<s[i]>> \o SubWordFrom(s, pat, repl, i + 1)

\* count=1: only the first match is replaced
RECURSIVE SubWordOnceFrom(_, _, _, _)
SubWordOnceFrom(s, pat, repl, i) ==
    IF i > Len(s) THEN <<>>
    ELSE IF WordAt(s, pat, i) THEN repl \o SubSeq(s, i + Len(pat), Len(s))
    ELSE <<s[i]>> \o SubWordOnceFrom(s, pat, repl, i + 1)

ReSubWordFirst(s, pat, repl) == SubWordOnceFrom(s, pat, repl, 1)

ReSubWord(s, pat, repl) == SubWordFrom(s, pat, repl, 1)

-----------------------------------------------------------------------------
(* CrossDatasetAnalyzer._normalize_addresses.normalize_addr *)

\* the replacements dict, in insertion order
replacements == <<
    << <<"S","T","R","E","E","T">>,             <<"S","T">> >>,
    << <<"A","V","E","N","U","E">>,             <<"A","V","E">> >>,
    << <<"R","O","A","D">>,                     <<"R","D">> >>,
    << <<"B","O","U","L","E","V","A","R","D">>, <<"B","L","V","D">> >>,
    << <<"D","R","I","V","E">>,                 <<"D","R">> >>,
    << <<"L","A","N","E">>,                     <<"L","N">> >>,
    << <<"C","O","U","R","T">>,                 <<"C","T">> >>,
    << <<"P","L","A","C","E">>,                 <<"P","L">> >>,
    << <<"C","I","R","C","L","E">>,             <<"C","I","R">> >>,
    << <<"H","I","G","H","W","A","Y">>,         <<"H","W","Y">> >>,
    << <<"P","A","R","K","W","A","Y">>,         <<"P","K","W","Y">> >>,
    << <<"T","U","R","N","P","I","K","E">>,     <<"T","P","K","E">> >> >>

\* for pattern, repl in replacements.items(): addr = re.sub(pattern, repl, addr)
\* (re.sub returns the text as it is when the pattern matches nowhere)
RECURSIVE ApplyReplacements(_, _)
ApplyReplacements(addr, k) ==
    IF k > Len(replacements) THEN addr
    ELSE IF \A i \in 1..Len(addr) : ~WordAt(addr, replacements[k][1], i)
    THEN ApplyReplacements(addr, k + 1)
    ELSE ApplyReplacements(ReSubWord(addr, replacements[k][1], replacements[k][2]), k + 1)

normalize_addr(addr) ==
    IF isna(addr) THEN <<>>
    ELSE ApplyReplacements(CollapseSpaces(strip(upper(addr))), 1)

-----------------------------------------------------------------------------
(* CrossDatasetAnalyzer._normalize_names.normalize_name *)

\* the suffixes list: each entry SUF stands for the pattern r'\s+SUF$'
suffixes == <<
    <<"L","L","C">>, <<"I","N","C">>, <<"C","O","R","P">>, <<"C","O">>,
    <<"L","T","D">>, <<"L","P">>, <<"L","L","P">>, <<"P","C">>, <<"P","L","C">>,
    <<"C","O","R","P","O","R","A","T","I","O","N">>, <<"C","O","M","P","A","N","Y">>,
    <<"L","I","M","I","T","E","D">>, <<"I","N","C","O","R","P","O","R","A","T","E","D">> >>

\* '$' also matches just before a newline that ends the text
AtDollar(s, i) == i = Len(s) \/ (i = Len(s) - 1 /\ s[Len(s)] = "\n")

\* The end position of a match of r'\s+SUF$' in name, or 0: SUF ends at the
\* '$' and at least one whitespace character precedes it.
SuffixEnd(name, suf) ==
    LET ends == {i \in 1..Len(name) :
                    /\ AtDollar(name, i)
                    /\ i - Len(suf) >= 1
                    /\ MatchesAt(name, suf, i - Len(suf) + 1)
                    /\ IsSpace(name[i - Len(suf)])}
    IN  IF ends = {} THEN 0 ELSE CHOOSE i \in ends : \A j \in ends : i <= j

\* re.sub(r'\s+SUF$', '', name): the match starts at the first character of
\* the whitespace run in front of SUF; what follows the match is kept.
ReSubSuffix(name, suf) ==
    LET e == SuffixEnd(name, suf)
    IN  IF e = 0 THEN name
        ELSE rstrip(SubSeq(name, 1, e - Len(suf))) \o SubSeq(name, e + 1, Len(name))

\* variant: the loop stops after the first pattern that matches
RECURSIVE StripFirstSuffix(_, _)
StripFirstSuffix(name, k) ==
    IF k > Len(suffixes) THEN name
    ELSE IF SuffixEnd(name, suffixes[k]) # 0 THEN ReSubSuffix(name, suffixes[k])
    ELSE StripFirstSuffix(name, k + 1)

\* for suffix in suffixes: name = re.sub(suffix, '', name)
\* (re.sub returns the text as it is when the pattern matches nowhere)
RECURSIVE StripSuffixes(_, _)
StripSuffixes(name, k) ==
    IF k > Len(suffixes) THEN name
    ELSE IF SuffixEnd(name, suffixes[k]) = 0 THEN StripSuffixes(name, k + 1)
    ELSE StripSuffixes(ReSubSuffix(name, suffixes[k]), k + 1)

normalize_name(name) ==
    IF isna(name) THEN <<>>
    ELSE strip(CollapseSpaces(StripSuffixes(strip(upper(name)), 1)))

-----------------------------------------------------------------------------
(* CrossDatasetAnalyzer._parse_currency *)

\* A cell handed to _parse_currency is missing, [t |-> "nan"], a number,
\* [t |-> "float", v |-> number], or text, [t |-> "str", s |-> characters].
\* A number is finite, [k |-> "fin", neg, ip, fp] with the digits of its integer
\* part (no leading zeros) and of its fraction (no trailing zeros), or infinite,
\* [k |-> "inf", neg].  An exception leaving the function is [k |-> "raise"].

RECURSIVE StripLeadingZeros(_)
StripLeadingZeros(d) ==
    IF d # <<>> /\ Head(d) = "0" THEN StripLeadingZeros(Tail(d)) ELSE d

RECURSIVE StripTrailingZeros(_)
StripTrailingZeros(d) ==
    IF d # <<>> /\ d[Len(d)] = "0"
    THEN StripTrailingZeros(SubSeq(d, 1, Len(d) - 1)) ELSE d

Fin(neg, ip, fp) ==
    LET i == StripLeadingZeros(ip)
        f == StripTrailingZeros(fp)
    IN  [k |-> "fin", neg |-> neg /\ (i # <<>> \/ f # <<>>), ip |-> i, fp |-> f]

Zero == Fin(FALSE, <<>>, <<>>)

Inf(neg) == [k |-> "inf", neg |-> neg]

IsFinite(v) == v.k = "fin"

\* The largest double is about 1.7976931348623157e308: it has
\* DBL_MAX_10_EXP + 1 digits in front of the point.
DBL_MAX_10_EXP == 308

\* The leading 17 digits of the smallest decimal that float() rounds to inf.
DblOverflowDigits ==
    <<"1","7","9","7","6","9","3","1","3","4","8","6","2","3","1","5","8">>

DigitVal(c) == CHOOSE n \in 0..9 : c = <<"0","1","2","3","4","5","6","7","8","9">>[n + 1]

\* d >= e for digit sequences of equal length
RECURSIVE DigitsGeq(_, _)
DigitsGeq(d, e) ==
    IF d = <<>> \/ e = <<>> THEN TRUE
    ELSE IF DigitVal(Head(d)) # DigitVal(Head(e)) THEN DigitVal(Head(d)) > DigitVal(Head(e))
    ELSE DigitsGeq(Tail(d), Tail(e))

\* Is the magnitude with integer digits ip (no leading zeros) beyond the doubles?
Overflows(ip) ==
    \/ Len(ip) > DBL_MAX_10_EXP + 1
    \/ /\ Len(ip) = DBL_MAX_10_EXP + 1
       /\ DigitsGeq(SubSeq(ip, 1, Len(DblOverflowDigits)), DblOverflowDigits)

\* re.sub(r'[^\d.-]', '', s): keep digits, '.' and '-'
KeepNumeric(s) == SelectSeq(s, LAMBDA c : c \in Digits \/ c = "." \/ c = "-")

\* float(text) for a text of digits, '.' and '-': an optional sign, digits with
\* at most one point, at least one digit; anything else is a ValueError.
PyFloat(text) ==
    LET neg  == text # <<>> /\ Head(text) = "-"
        body == IF neg THEN Tail(text) ELSE text
        dots == {i \in 1..Len(body) : body[i] = "."}
        dot  == IF dots = {} THEN Len(body) + 1 ELSE CHOOSE i \in dots : TRUE
        ip   == SubSeq(body, 1, dot - 1)
        fp   == SubSeq(body, dot + 1, Len(body))
        ok   == /\ Cardinality(dots) <= 1
                /\ \A i \in 1..Len(body) : body[i] \in Digits \/ body[i] = "."
                /\ Len(ip) + Len(fp) >= 1
    IN  IF ~ok THEN [k |-> "raise", exc |-> "ValueError"]
        ELSE IF Overflows(StripLeadingZeros(ip)) THEN Inf(neg)
        ELSE Fin(neg, ip, fp)

\* float(cleaned) with every ValueError handled
FloatOrZero(cleaned) ==
    IF PyFloat(cleaned).k = "raise" THEN Zero ELSE PyFloat(cleaned)

\* pd.isna of a cell
IsNaCell(value) == value.t = "nan"

_parse_currency(value) ==
    IF IsNaCell(value) THEN Zero
    ELSE IF value.t = "float" THEN value.v
    ELSE FloatOrZero(KeepNumeric(value.s))

-----------------------------------------------------------------------------
(* Tables (pandas DataFrames), sequences and scores *)

\* Code points order the characters the model uses.
CharOrder == <<"\t", "\n", " ", "$", ",", "-", ".", "/",
               "0", "1", "2", "3", "4", "5", "6", "7", "8", "9",
               "A", "B", "C", "D", "E", "F", "G", "H", "I", "J", "K", "L", "M",
               "N", "O", "P", "Q", "R", "S", "T", "U", "V", "W", "X", "Y", "Z", "_",
               "a", "b", "c", "d", "e", "f", "g", "h", "i", "j", "k", "l", "m",
               "n", "o", "p", "q", "r", "s", "t", "u", "v", "w", "x", "y", "z">>

Ord(c) == CHOOSE i \in 1..Len(CharOrder) : CharOrder[i] = c

\* a < b for Python strings
RECURSIVE TextLess(_, _)
TextLess(a, b) ==
    IF b = <<>> THEN FALSE
    ELSE IF a = <<>> THEN TRUE
    ELSE IF Head(a) # Head(b) THEN Ord(Head(a)) < Ord(Head(b))
    ELSE TextLess(Tail(a), Tail(b))

Range(s) == {s[i] : i \in 1..Len(s)}

\* the concatenation of a sequence of sequences
RECURSIVE Flatten(_)
Flatten(ps) ==
    IF Len(ps) = 0 THEN <<>>
    ELSE IF Len(ps) = 1 THEN ps[1]
    ELSE LET half == Len(ps) \div 2
         IN  Flatten(SubSeq(ps, 1, half)) \o Flatten(SubSeq(ps, half + 1, Len(ps)))

\* Series.unique(): the distinct values in order of first appearance (a
\* missing value is one of them)
FirstsOf(s, firsts) ==
    [k \in 1..Cardinality(firsts) |->
        s[CHOOSE i \in firsts : Cardinality({j \in firsts : j <= i}) = k]]

unique(s) == FirstsOf(s, {i \in 1..Len(s) : \A j \in 1..(i - 1) : s[j] # s[i]})

\* Series.dropna()
dropna(s) == SelectSeq(s, LAMBDA v : ~isna(v))

\* the sequence of the values of a function on 1..n
Materialized(f) == SubSeq(f, 1, Len(f))

\* the ascending sequence of a set of texts: the k-th is the one with k - 1
\* smaller ones
SortedTexts(S) ==
    Materialized([k \in 1..Cardinality(S) |->
        CHOOSE x \in S : Cardinality({y \in S : TextLess(y, x)}) = k - 1])

\* the ascending sequence of a set of integers
SortedInts(S) ==
    Materialized([k \in 1..Cardinality(S) |->
        CHOOSE x \in S : Cardinality({y \in S : y < x}) = k - 1])

\* sort descending by Key, equal keys staying in their order: the element at
\* index i moves behind every larger one and every equal one before it
RankDesc(key) ==
    [i \in 1..Len(key) |->
        1 + Cardinality({j \in 1..Len(key) : key[j] > key[i] \/ (key[j] = key[i] /\ j < i)})]

Placed(s, rank) == [p \in 1..Len(s) |-> s[CHOOSE i \in 1..Len(s) : rank[i] = p]]

SortDesc(s, key) == Placed(s, Materialized(RankDesc(Materialized(key))))

\* the largest Key over a non-empty sequence
MaxOf(s) == CHOOSE m \in Range(s) : \A i \in 1..Len(s) : s[i] <= m

\* DataFrame.head(n) / list[:n]
head(s, n) == SubSeq(s, 1, IF Len(s) < n THEN Len(s) ELSE n)

\* A score is the float num/den; 0/0 is the float NaN.
Ratio(n, d) == [num |-> n, den |-> d]

IsNaNScore(r) == r.den = 0

ScoreIsOne(r) == r.den > 0 /\ r.num = r.den

ScoreInUnit(r) == r.den > 0 /\ 0 <= r.num /\ r.num <= r.den

\* df.groupby(column): one group per non-missing key, keys ascending, the
\* rows of a group in table order
groupby(rows, col) ==
    LET keys == SortedTexts({rows[i][col] : i \in 1..Len(rows)} \ {NaN})
    IN  [g \in 1..Len(keys) |->
            [key  |-> keys[g],
             rows |-> SelectSeq(rows, LAMBDA r : r[col] = keys[g])]]

\* the column of a table as a sequence
Column(rows, col) == [i \in 1..Len(rows) |-> rows[i][col]]

\* Series.count(): the number of non-missing values
count(s) == Len(dropna(s))

-----------------------------------------------------------------------------
(* LicenseAnalyzer (analyzer.py) *)

\* Missing and unparsable dates, and None; parsed dates are day numbers >= 0.
NaT == 0 - 1
BadDate == 0 - 2
NoneDate == 0 - 3

\* pd.to_datetime(x, errors='coerce')
to_datetime(x) == IF x >= 0 THEN x ELSE NaT

\* .str.upper().str.strip(), missing values staying missing
StrUpperStrip(v) == IF isna(v) THEN NaN ELSE strip(upper(v))

\* .str.replace(r'\s+', ' ', regex=True)
StrCollapse(v) == IF isna(v) THEN NaN ELSE CollapseSpaces(v)

\* LicenseAnalyzer._normalize_data, row by row
NormalizeRow(columns, r) ==
    [license_id    |-> r.license_id,
     business_name |-> r.business_name,
     dba_name      |-> r.dba_name,
     address       |-> r.address,
     zip_code      |-> r.zip_code,
     issue_date    |-> IF "issue_date" \in columns THEN to_datetime(r.issue_date)
                       ELSE r.issue_date,
     address_normalized |->
         IF "address" \in columns THEN StrCollapse(StrUpperStrip(r.address)) ELSE NaN,
     business_name_normalized |->
         IF "business_name" \in columns THEN StrUpperStrip(r.business_name) ELSE NaN]

\* LicenseAnalyzer.__init__: copy the data and normalize it
LicenseAnalyzer(df) ==
    [columns |-> df.columns
                   \cup (IF "address" \in df.columns THEN {"address_normalized"} ELSE {})
                   \cup (IF "business_name" \in df.columns
                         THEN {"business_name_normalized"} ELSE {}),
     rows    |-> [i \in 1..Len(df.rows) |-> NormalizeRow(df.columns, df.rows[i])]]

\* 'license_id': 'count' of a group
LicenseCount(rows) == count(Column(rows, "license_id"))

\* variant: the count has to exceed the threshold
ExceedsThreshold(n, threshold) == n > threshold

\* license_count >= threshold
MeetsThreshold(n, threshold) == n >= threshold

\* count / largest count
ScoreByMax(n, max) == Ratio(n, max)

\* The columns named by the dictionary given to groupby(...).agg(...)
DensityAggColumns == {"license_id", "business_name", "dba_name", "license_type", "issue_date"}

GeoAggColumns == {"license_id", "business_name", "address", "license_type"}

\* agg() with a dictionary raises KeyError when a named column does not exist;
\* the test inside a lambda of the dictionary is reached too late to prevent it
AggKeyError(df, cols) == cols \ df.columns # {}

\* analyze_address_density raises instead of returning
AddressDensityRaises(df) ==
    "address_normalized" \in df.columns /\ AggKeyError(df, DensityAggColumns)

\* LicenseAnalyzer.analyze_address_density
analyze_address_density(df, threshold) ==
    IF "address_normalized" \notin df.columns THEN <<>>
    ELSE
    LET groups  == groupby(df.rows, "address_normalized")
        address_groups ==
            [g \in 1..Len(groups) |->
                [address       |-> groups[g].key,
                 license_count |-> LicenseCount(groups[g].rows),
                 businesses    |-> unique(Column(groups[g].rows, "business_name"))]]
        over    == SelectSeq(address_groups,
                             LAMBDA a : MeetsThreshold(a.license_count, threshold))
        flagged == SortDesc(over, Column(over, "license_count"))
    IN  [i \in 1..Len(flagged) |->
            [address       |-> flagged[i].address,
             license_count |-> flagged[i].license_count,
             businesses    |-> flagged[i].businesses,
             risk_score    |-> ScoreByMax(flagged[i].license_count,
                                          MaxOf(Column(flagged, "license_count"))),
             pattern_type  |-> "ADDRESS_CLUSTERING"]]

\* Levenshtein.ratio(a, b): 2 * (longest common subsequence) / (len(a) + len(b))
RECURSIVE LCS(_, _)
LCS(a, b) ==
    IF a = <<>> \/ b = <<>> THEN 0
    ELSE IF Head(a) = Head(b) THEN 1 + LCS(Tail(a), Tail(b))
    ELSE LET x == LCS(Tail(a), b)
             y == LCS(a, Tail(b))
         IN  IF x >= y THEN x ELSE y

ratio(a, b) ==
    IF Len(a) + Len(b) = 0 THEN Ratio(1, 1) ELSE Ratio(2 * LCS(a, b), Len(a) + Len(b))

\* similarity >= threshold, the threshold given in hundredths
Similar(a, b, threshold) == ratio(a, b).num * 100 >= threshold * ratio(a, b).den

\* variant: an absorbed name is not marked processed
RECURSIVE UnmarkedClusters(_, _, _, _, _)
UnmarkedClusters(names, threshold, i, processed, clusters) ==
    IF i > Len(names) THEN clusters
    ELSE LET absorbed == SelectSeq(SubSeq(names, i + 1, Len(names)),
                             LAMBDA n : Similar(names[i], n, threshold))
             cluster  == <<names[i]>> \o absorbed
         IN  IF Len(cluster) > 1
             THEN UnmarkedClusters(names, threshold, i + 1, processed,
                                   Append(clusters, cluster))
             ELSE UnmarkedClusters(names, threshold, i + 1, processed, clusters)

\* variant: the inner loop stops at the first similar name
RECURSIVE FirstMatchClusters(_, _, _, _, _)
FirstMatchClusters(names, threshold, i, processed, clusters) ==
    IF i > Len(names) THEN clusters
    ELSE IF names[i] \in processed
    THEN FirstMatchClusters(names, threshold, i + 1, processed, clusters)
    ELSE LET absorbed == SelectSeq(SubSeq(names, i + 1, Len(names)),
                             LAMBDA n : n \notin processed /\ Similar(names[i], n, threshold))
             cluster  == <<names[i]>> \o head(absorbed, 1)
         IN  IF Len(cluster) > 1
             THEN FirstMatchClusters(names, threshold, i + 1,
                                     processed \cup Range(cluster), Append(clusters, cluster))
             ELSE FirstMatchClusters(names, threshold, i + 1, processed, clusters)

\* The loop of analyze_name_similarity from index i on: a name not yet
\* processed seeds a cluster and absorbs the unprocessed names after it that
\* are similar to it; a seed left alone is not marked processed.
RECURSIVE GreedyClusters(_, _, _, _, _)
GreedyClusters(names, threshold, i, processed, clusters) ==
    IF i > Len(names) THEN clusters
    ELSE IF names[i] \in processed
    THEN GreedyClusters(names, threshold, i + 1, processed, clusters)
    ELSE LET absorbed == SelectSeq(SubSeq(names, i + 1, Len(names)),
                             LAMBDA n : n \notin processed /\ Similar(names[i], n, threshold))
             cluster  == <<names[i]>> \o absorbed
         IN  IF Len(cluster) > 1
             THEN GreedyClusters(names, threshold, i + 1,
                                 processed \cup Range(cluster), Append(clusters, cluster))
             ELSE GreedyClusters(names, threshold, i + 1, processed, clusters)

\* LicenseAnalyzer.analyze_name_similarity: an empty list, after a warning is
\* printed, when python-Levenshtein cannot be imported
analyze_name_similarity(df, threshold) ==
    IF ~levenshtein THEN <<>>
    ELSE IF "business_name_normalized" \notin df.columns THEN <<>>
    ELSE
    LET names == unique(dropna(Column(df.rows, "business_name_normalized")))
        found == GreedyClusters(names, threshold, 1, {}, <<>>)
        clusters ==
            [c \in 1..Len(found) |->
                [cluster_size  |-> Len(found[c]),
                 names         |-> found[c],
                 license_count |-> Len(SelectSeq(df.rows,
                                      LAMBDA r : r.business_name_normalized \in Range(found[c]))),
                 pattern_type  |-> "NAME_SIMILARITY"]]
        scored ==
            [c \in 1..Len(clusters) |->
                [cluster_size  |-> clusters[c].cluster_size,
                 names         |-> clusters[c].names,
                 license_count |-> clusters[c].license_count,
                 pattern_type  |-> clusters[c].pattern_type,
                 risk_score    |-> ScoreByMax(clusters[c].cluster_size,
                                              MaxOf(Column(clusters, "cluster_size")))]]
    IN  SortDesc(scored, Column(scored, "cluster_size"))

\* A count that does not apply to a row of the concatenated DBA table (NaN)
NoCount == 0 - 1

\* LicenseAnalyzer.analyze_dba_patterns
analyze_dba_patterns(df) ==
    IF "dba_name" \notin df.columns THEN <<>>
    ELSE
    LET dba_data == SelectSeq(df.rows, LAMBDA r : ~isna(r.dba_name))
        by_business == groupby(dba_data, "business_name")
        business_dbas ==
            [g \in 1..Len(by_business) |->
                [pattern_type   |-> "MULTIPLE_DBAS_PER_BUSINESS",
                 key            |-> by_business[g].key,
                 members        |-> unique(Column(by_business[g].rows, "dba_name")),
                 license_id     |-> LicenseCount(by_business[g].rows),
                 dba_count      |-> Len(unique(Column(by_business[g].rows, "dba_name"))),
                 business_count |-> NoCount]]
        by_dba == groupby(dba_data, "dba_name")
        dba_businesses ==
            [g \in 1..Len(by_dba) |->
                [pattern_type   |-> "SHARED_DBA",
                 key            |-> by_dba[g].key,
                 members        |-> unique(Column(by_dba[g].rows, "business_name")),
                 license_id     |-> LicenseCount(by_dba[g].rows),
                 dba_count      |-> NoCount,
                 business_count |-> Len(unique(Column(by_dba[g].rows, "business_name")))]]
        multiple_dbas == SelectSeq(business_dbas, LAMBDA f : f.dba_count > 1)
        shared_dbas   == SelectSeq(dba_businesses, LAMBDA f : f.business_count > 1)
        Scored(fs, col) ==
            [i \in 1..Len(fs) |->
                [pattern_type   |-> fs[i].pattern_type,
                 key            |-> fs[i].key,
                 members        |-> fs[i].members,
                 license_id     |-> fs[i].license_id,
                 dba_count      |-> fs[i].dba_count,
                 business_count |-> fs[i].business_count,
                 risk_score     |-> IF MaxOf(Column(fs, col)) > 0
                                    THEN ScoreByMax(fs[i][col], MaxOf(Column(fs, col)))
                                    ELSE Ratio(0, 1)]]
    IN  IF Len(dba_data) = 0 THEN <<>>
        ELSE Scored(multiple_dbas, "dba_count") \o Scored(shared_dbas, "business_count")

\* variant: nothing is dropped
KeepDuplicates(s) == s

\* DataFrame.drop_duplicates(subset=['cluster_key']): the first row of each key
RECURSIVE drop_duplicates(_)
drop_duplicates(s) ==
    IF s = <<>> THEN <<>>
    ELSE LET d == drop_duplicates(SubSeq(s, 1, Len(s) - 1))
         IN  IF \E i \in 1..Len(d) : d[i].cluster_key = s[Len(s)].cluster_key
             THEN d ELSE Append(d, s[Len(s)])

\* LicenseAnalyzer.analyze_temporal_clustering
analyze_temporal_clustering(df, window_days, threshold) ==
    IF "issue_date" \notin df.columns THEN <<>>
    ELSE
    LET dated == SelectSeq(df.rows, LAMBDA r : r.issue_date # NaT)
        dated_licenses == SortDesc(dated, [i \in 1..Len(dated) |-> 0 - dated[i].issue_date])
        InWindow(d) == SelectSeq(dated_licenses,
                           LAMBDA r : /\ r.issue_date >= d - window_days
                                      /\ r.issue_date <= d + window_days)
        windows ==
            [i \in 1..Len(dated_licenses) |->
                [window_start  |-> dated_licenses[i].issue_date - window_days,
                 window_end    |-> dated_licenses[i].issue_date + window_days,
                 license_count |-> Len(InWindow(dated_licenses[i].issue_date)),
                 businesses    |-> unique(Column(InWindow(dated_licenses[i].issue_date), "business_name")),
                 pattern_type  |-> "TEMPORAL_CLUSTERING",
                 cluster_key   |-> <<dated_licenses[i].issue_date - window_days,
                                     dated_licenses[i].issue_date + window_days>>]]
        clusters   == SelectSeq(windows, LAMBDA w : MeetsThreshold(w.license_count, threshold))
        kept       == drop_duplicates(clusters)
        cluster_df == SortDesc(kept, Column(kept, "license_count"))
    IN  [i \in 1..Len(cluster_df) |->
            [window_start  |-> cluster_df[i].window_start,
             window_end    |-> cluster_df[i].window_end,
             license_count |-> cluster_df[i].license_count,
             businesses    |-> cluster_df[i].businesses,
             pattern_type  |-> cluster_df[i].pattern_type,
             risk_score    |-> ScoreByMax(cluster_df[i].license_count,
                                          MaxOf(Column(cluster_df, "license_count")))]]

\* a / b for scores with positive denominators
ScoreDiv(a, b) == Ratio(a.num * b.den, a.den * b.num)

ScoreLeq(a, b) == a.num * b.den <= b.num * a.den

\* the largest concentration_ratio of a non-empty table
MaxConcentration(fs) ==
    LET rs == {fs[i].concentration_ratio : i \in 1..Len(fs)}
    IN  CHOOSE m \in rs : \A r \in rs : ScoreLeq(r, m)

\* analyze_geographic_concentration raises instead of returning
GeographicRaises(df) == "zip_code" \in df.columns /\ AggKeyError(df, GeoAggColumns)

\* LicenseAnalyzer.analyze_geographic_concentration
analyze_geographic_concentration(df, zip_threshold) ==
    IF "zip_code" \notin df.columns THEN <<>>
    ELSE
    LET groups == groupby(df.rows, "zip_code")
        zip_groups ==
            [g \in 1..Len(groups) |->
                [zip_code          |-> groups[g].key,
                 license_count     |-> LicenseCount(groups[g].rows),
                 unique_businesses |-> Len(unique(Column(groups[g].rows, "business_name"))),
                 unique_addresses  |-> IF "address" \in df.columns
                                       THEN Len(unique(Column(groups[g].rows, "address")))
                                       ELSE 0]]
        over    == SelectSeq(zip_groups,
                             LAMBDA z : MeetsThreshold(z.license_count, zip_threshold))
        flagged == SortDesc(over, Column(over, "license_count"))
        ratios ==
            [i \in 1..Len(flagged) |->
                [zip_code            |-> flagged[i].zip_code,
                 license_count       |-> flagged[i].license_count,
                 unique_businesses   |-> flagged[i].unique_businesses,
                 unique_addresses    |-> flagged[i].unique_addresses,
                 concentration_ratio |->
                     IF flagged[i].unique_addresses > 0
                     THEN Ratio(flagged[i].license_count, flagged[i].unique_addresses)
                     ELSE Ratio(0, 1)]]
    IN  [i \in 1..Len(ratios) |->
            [zip_code            |-> ratios[i].zip_code,
             license_count       |-> ratios[i].license_count,
             unique_businesses   |-> ratios[i].unique_businesses,
             unique_addresses    |-> ratios[i].unique_addresses,
             concentration_ratio |-> ratios[i].concentration_ratio,
             risk_score          |-> IF MaxConcentration(ratios).num > 0
                                     THEN ScoreDiv(ratios[i].concentration_ratio,
                                                   MaxConcentration(ratios))
                                     ELSE Ratio(0, 1),
             pattern_type        |-> "GEOGRAPHIC_CONCENTRATION"]]

\* Defaults of the detectors' parameters (name similarity in hundredths)
DefaultAddressThreshold == 3
DefaultNameSimilarity == 85
DefaultWindowDays == 7
DefaultTemporalThreshold == 5
DefaultZipThreshold == 10

\* head(5) / [:5] of generate_summary_report
TopN == 5

\* An entry of summary['analyses'] that may be absent: <<>> or <<entry>>
Absent == <<>>
Present(e) == <<e>>

\* Series.min() / Series.max() of the parsed issue dates, NaT when there is none
MinDate(rows) ==
    LET ds == {rows[i].issue_date : i \in 1..Len(rows)} \ {NaT}
    IN  IF ds = {} THEN NaT ELSE CHOOSE d \in ds : \A e \in ds : d <= e

MaxDate(rows) ==
    LET ds == {rows[i].issue_date : i \in 1..Len(rows)} \ {NaT}
    IN  IF ds = {} THEN NaT ELSE CHOOSE d \in ds : \A e \in ds : d >= e

\* The summary dictionary built from the table and the five detector results
SummaryOf(df, ad, ns, dp, tc, gc) ==
        [total_licenses    |-> Len(df.rows),
         unique_businesses |-> IF "business_name" \in df.columns
                               THEN Len(unique(Column(df.rows, "business_name")))
                               ELSE 0,
         unique_addresses  |-> IF "address" \in df.columns
                               THEN Len(unique(Column(df.rows, "address")))
                               ELSE 0,
         date_range        |-> [earliest |-> IF "issue_date" \in df.columns
                                             THEN MinDate(df.rows) ELSE NoneDate,
                                latest   |-> IF "issue_date" \in df.columns
                                             THEN MaxDate(df.rows) ELSE NoneDate],
         analyses |->
            [address_density |->
                IF Len(ad) > 0
                THEN Present([flagged_addresses |-> Len(ad),
                              top_addresses |->
                                  [i \in 1..Len(head(ad, TopN)) |->
                                      [address       |-> ad[i].address,
                                       license_count |-> ad[i].license_count,
                                       risk_score    |-> ad[i].risk_score]]])
                ELSE Absent,
             name_similarity |->
                IF Len(ns) > 0
                THEN Present([clusters_found |-> Len(ns), top_clusters |-> head(ns, TopN)])
                ELSE Absent,
             dba_patterns |->
                IF Len(dp) > 0
                THEN Present([anomalies_found |-> Len(dp), top_patterns |-> head(dp, TopN)])
                ELSE Absent,
             temporal_clustering |->
                IF Len(tc) > 0
                THEN Present([clusters_found |-> Len(tc), top_clusters |-> head(tc, TopN)])
                ELSE Absent,
             geographic_concentration |->
                IF Len(gc) > 0
                THEN Present([concentrated_zips |-> Len(gc), top_zips |-> head(gc, TopN)])
                ELSE Absent]]

\* LicenseAnalyzer.generate_summary_report: every detector run again with its
\* default parameters
generate_summary_report(df) ==
    SummaryOf(df,
              analyze_address_density(df, DefaultAddressThreshold),
              analyze_name_similarity(df, DefaultNameSimilarity),
              analyze_dba_patterns(df),
              analyze_temporal_clustering(df, DefaultWindowDays, DefaultTemporalThreshold),
              analyze_geographic_concentration(df, DefaultZipThreshold))

-----------------------------------------------------------------------------
(* Reporter (reporter.py) *)

\* Rows, items and cell width shown by the text report
TableMaxRows == 20
ListMaxItems == 10
ListMaxValues == 5
DbaMaxRows == 10
TemporalMaxRows == 15
MaxColWidth == 50

\* A float shown with the given number of decimals: the nearest multiple of
\* 1/scale, ties to even, as an integer count of 1/scale; NaN is shown as NaN.
ShownNaN == 0 - 1

Rounded(r, scale) ==
    IF IsNaNScore(r) THEN ShownNaN
    ELSE LET q   == (r.num * scale) \div r.den
             rem == (r.num * scale) % r.den
         IN  IF 2 * rem > r.den \/ (2 * rem = r.den /\ q % 2 = 1) THEN q + 1 ELSE q

\* f"{value:.3f}"
Fmt3(r) == Rounded(r, 1000)

\* DataFrame.to_string: floats at display.precision, six decimals
Fmt6(r) == Rounded(r, 1000000)

\* to_string(max_colwidth=50): a longer text is cut and ends in "..."
Truncated(s) ==
    IF Len(s) > MaxColWidth THEN SubSeq(s, 1, MaxColWidth - 3) \o <<".", ".", ".">> ELSE s

\* a list value of format_list: value[:5] + ["... and n more"]
ShownList(value) ==
    IF Len(value) > ListMaxValues
    THEN [shown |-> head(value, ListMaxValues), more |-> Len(value) - ListMaxValues]
    ELSE [shown |-> value, more |-> 0]

\* Timestamp.date() as printed, and Timestamp.isoformat() as exported
DateText(d) == [date |-> d]
IsoText(d) == [iso |-> d]

\* Reporter.generate_address_density_report via format_table
generate_address_density_report(df) ==
    [i \in 1..Len(head(df, TableMaxRows)) |->
        [address       |-> Truncated(df[i].address),
         license_count |-> df[i].license_count,
         risk_score    |-> Fmt6(df[i].risk_score)]]

\* Reporter.generate_name_similarity_report via format_list
generate_name_similarity_report(clusters) ==
    [i \in 1..Len(head(clusters, ListMaxItems)) |->
        [cluster_size  |-> clusters[i].cluster_size,
         names         |-> ShownList(clusters[i].names),
         license_count |-> clusters[i].license_count,
         pattern_type  |-> clusters[i].pattern_type,
         risk_score    |-> Fmt3(clusters[i].risk_score)]]

\* Reporter.generate_dba_patterns_report: per pattern type, in order of first
\* appearance, the first ten rows
generate_dba_patterns_report(df) ==
    LET types == unique(Column(df, "pattern_type"))
        Section(ty) ==
            LET subset == SelectSeq(df, LAMBDA f : f.pattern_type = ty)
            IN  [i \in 1..Len(head(subset, DbaMaxRows)) |->
                    [pattern_type |-> ty,
                     name         |-> IF ty = "MULTIPLE_DBAS_PER_BUSINESS"
                                      THEN <<subset[i].key>> ELSE subset[i].members,
                     risk_score   |-> Fmt3(subset[i].risk_score)]]
    IN  Flatten([k \in 1..Len(types) |-> Section(types[k])])

\* Reporter.generate_temporal_clustering_report
generate_temporal_clustering_report(df) ==
    [i \in 1..Len(head(df, TemporalMaxRows)) |->
        [window_start  |-> DateText(df[i].window_start),
         window_end    |-> DateText(df[i].window_end),
         license_count |-> df[i].license_count,
         risk_score    |-> Fmt3(df[i].risk_score),
         businesses    |-> ShownList(df[i].businesses)]]

\* Reporter.generate_geographic_concentration_report via format_table
generate_geographic_concentration_report(df) ==
    [i \in 1..Len(head(df, TableMaxRows)) |->
        [zip_code            |-> Truncated(df[i].zip_code),
         license_count       |-> df[i].license_count,
         unique_addresses    |-> df[i].unique_addresses,
         concentration_ratio |-> Fmt6(df[i].concentration_ratio),
         risk_score          |-> Fmt6(df[i].risk_score)]]

\* Reporter.generate_executive_summary: the numbers it prints
generate_executive_summary(s) ==
    LET an == s.analyses
    IN  [total_licenses    |-> s.total_licenses,
         unique_businesses |-> s.unique_businesses,
         unique_addresses  |-> s.unique_addresses,
         date_range        |-> IF /\ s.date_range.earliest # NoneDate
                                  /\ s.date_range.latest # NoneDate
                               THEN Present([earliest |-> DateText(s.date_range.earliest),
                                             latest   |-> DateText(s.date_range.latest)])
                               ELSE Absent,
         address_density   |->
            IF an.address_density = Absent THEN Absent
            ELSE Present([flagged_addresses |-> an.address_density[1].flagged_addresses,
                          highest |-> an.address_density[1].top_addresses[1].license_count]),
         name_similarity   |->
            IF an.name_similarity = Absent THEN Absent
            ELSE Present([clusters_found |-> an.name_similarity[1].clusters_found,
                          largest |-> an.name_similarity[1].top_clusters[1].cluster_size]),
         dba_patterns      |->
            IF an.dba_patterns = Absent THEN Absent
            ELSE Present([anomalies_found |-> an.dba_patterns[1].anomalies_found]),
         temporal_clustering |->
            IF an.temporal_clustering = Absent THEN Absent
            ELSE Present([clusters_found |-> an.temporal_clustering[1].clusters_found,
                          largest |-> an.temporal_clustering[1].top_clusters[1].license_count]),
         geographic_concentration |->
            IF an.geographic_concentration = Absent THEN Absent
            ELSE Present([concentrated_zips |->
                              an.geographic_concentration[1].concentrated_zips])]

\* Reporter.generate_full_report: the summary and the five sections
generate_full_report(ad, ns, dp, tc, gc, s) ==
    [executive_summary        |-> generate_executive_summary(s),
     address_density          |-> generate_address_density_report(ad),
     name_similarity          |-> generate_name_similarity_report(ns),
     dba_patterns             |-> generate_dba_patterns_report(dp),
     temporal_clustering      |-> generate_temporal_clustering_report(tc),
     geographic_concentration |-> generate_geographic_concentration_report(gc)]

\* Reporter._serialize_for_json on the summary: Timestamps become ISO text
\* (json.dump's default=str writes NaT as text), everything else is kept
_serialize_for_json(s) ==
    [s EXCEPT !.date_range =
        [earliest |-> IsoText(s.date_range.earliest),
         latest   |-> IsoText(s.date_range.latest)],
              !.analyses.temporal_clustering =
        IF s.analyses.temporal_clustering = Absent THEN Absent
        ELSE Present([clusters_found |-> s.analyses.temporal_clustering[1].clusters_found,
                      top_clusters |->
                          [i \in 1..Len(s.analyses.temporal_clustering[1].top_clusters) |->
                              [s.analyses.temporal_clustering[1].top_clusters[i] EXCEPT
                                  !.window_start = IsoText(@),
                                  !.window_end = IsoText(@)]]])]

\* variant: only the first row is exported
TopRecords(df) == head(df, 1)

\* DataFrame.to_dict('records'): one record per row, every row
to_dict_records(df) == df

\* json.dump(..., default=str) of the temporal records: Timestamps become text
TemporalJson(df) ==
    [i \in 1..Len(df) |->
        [df[i] EXCEPT !.window_start = IsoText(@), !.window_end = IsoText(@)]]

\* Reporter.export_to_json: the content of the file
export_to_json(ad, ns, dp, tc, gc, s) ==
    [summary  |-> _serialize_for_json(s),
     findings |->
        [address_density          |-> to_dict_records(ad),
         name_similarity          |-> ns,
         dba_patterns             |-> to_dict_records(dp),
         temporal_clustering      |-> TemporalJson(to_dict_records(tc)),
         geographic_concentration |-> to_dict_records(gc)]]

-----------------------------------------------------------------------------
(* cli.py main: specification Spec *)

Row(id, name, dba, addr, zip, date) ==
    [license_id |-> id, business_name |-> name, dba_name |-> dba,
     address |-> addr, zip_code |-> zip, issue_date |-> date]

LicenseColumns ==
    {"license_id", "business_name", "dba_name", "license_type", "address", "zip_code",
     "issue_date"}

\* Cell values of the input files
L1 == <<"L">>
NameAB == <<"A","B">>
Addr1 == <<"1","0","0"," ","M","a","i","n"," ","S","t">>
Addr1Spaced == <<" ","1","0","0"," "," ","m","a","i","n"," ","s","t">>
Addr2 == <<"7"," ","O","a","k"," ","A","v","e">>
AddrStreet == <<"1","0","0"," ","M","a","i","n"," ","S","t","r","e","e","t">>
AddrSt == <<"1","0","0"," ","M","A","I","N"," ","S","T">>
Dba1 == <<"D","1">>
Dba2 == <<"D","2">>
Zip1 == <<"1","0","0","0","1">>
Zip2 == <<"1","0","0","0","2">>

\* Tables of 0..n rows drawn from a set of rows
Tables(rowset, n) == UNION {[1..k -> rowset] : k \in 0..n}

DensityRows ==
    {Row(L1, NameAB, NaN, a, NaN, NaT) : a \in {Addr1, Addr1Spaced, Addr2, NaN}}
    \cup {Row(NaN, NameAB, NaN, Addr1, NaN, NaT)}

NameRows ==
    {Row(L1, n, NaN, Addr1, NaN, NaT) :
        n \in {NameAB, <<"A">>, <<"B">>, <<"B","C">>, <<"a","b"," ">>, NaN}}

DbaRows ==
    {Row(L1, <<"A">>, Dba1, Addr1, NaN, NaT), Row(L1, <<"A">>, Dba2, Addr1, NaN, NaT),
     Row(L1, <<"B">>, Dba1, Addr1, NaN, NaT), Row(L1, <<"A">>, NaN, Addr1, NaN, NaT),
     Row(L1, NaN, Dba1, Addr1, NaN, NaT)}

TemporalRows == {Row(L1, NameAB, NaN, Addr1, NaN, d) : d \in {0, 1, 8, NaT, BadDate}}

GeoRows ==
    {Row(L1, NameAB, NaN, Addr1, Zip1, NaT), Row(L1, NameAB, NaN, Addr2, Zip1, NaT),
     Row(L1, NameAB, NaN, Addr1, Zip2, NaT), Row(NaN, NameAB, NaN, Addr1, Zip1, NaT),
     Row(L1, NameAB, NaN, Addr1, NaN, NaT), Row(L1, NameAB, NaN, NaN, Zip1, NaT)}

\* Five licenses, four of them at one address written in either of two forms,
\* the other one (row p) elsewhere
ScenarioNames ==
    {<<NameAB, <<"A">>, <<"B">>, <<"B","C">>, NameAB>>,
     <<<<"B","C">>, NameAB, <<"A">>, <<"B">>, <<"B","C">>>>}

ScenarioTables ==
    LET dbas  == <<Dba1, Dba1, NaN, NaN, Dba2>>
        zips  == <<Zip1, Zip1, Zip2, Zip1, Zip1>>
        dates == <<0, 1, 1, 2, 8>>
    IN  {[i \in 1..5 |-> Row(L1, names[i], dbas[i],
                             IF i = p THEN Addr2 ELSE form[i], zips[i], dates[i])] :
            p \in 1..5, form \in [1..5 -> {AddrStreet, AddrSt}], names \in ScenarioNames}

\* Tables have at most MaxRows rows; count thresholds given on the command
\* line are integers in 0..MaxThreshold.
MaxRows == 3
MaxThreshold == 3

Thresholds == 0..MaxThreshold
NameThresholds == {60, DefaultNameSimilarity}
WindowChoices == {1, DefaultWindowDays}

Args(rows, at, ns, tw, tt, zt) ==
    [data_file          |-> [exists |-> TRUE, columns |-> LicenseColumns, rows |-> rows],
     address_threshold  |-> at,
     name_similarity    |-> ns,
     temporal_window    |-> tw,
     temporal_threshold |-> tt,
     zip_threshold      |-> zt]

DefaultArgs(rows) ==
    Args(rows, DefaultAddressThreshold, DefaultNameSimilarity, DefaultWindowDays,
         DefaultTemporalThreshold, DefaultZipThreshold)

\* parser.parse_args(): the command lines of the model
DensityRuns ==
    {[DefaultArgs(rows) EXCEPT !.address_threshold = th] :
        rows \in Tables(DensityRows, MaxRows), th \in Thresholds}

NameRuns ==
    {[DefaultArgs(rows) EXCEPT !.name_similarity = th] :
        rows \in Tables(NameRows, MaxRows), th \in NameThresholds}

DbaRuns == {DefaultArgs(rows) : rows \in Tables(DbaRows, MaxRows)}

TemporalRuns ==
    {[DefaultArgs(rows) EXCEPT !.temporal_window = w, !.temporal_threshold = th] :
        rows \in Tables(TemporalRows, MaxRows), w \in WindowChoices, th \in Thresholds}

GeoRuns ==
    {[DefaultArgs(rows) EXCEPT !.zip_threshold = th] :
        rows \in Tables(GeoRows, MaxRows), th \in Thresholds}

ScenarioRuns ==
    {Args(rows, DefaultAddressThreshold, 60, DefaultWindowDays, 3, 3) :
        rows \in ScenarioTables}

\* Two businesses with two and three DBA names, and two ZIP codes with three
\* licenses at three addresses and two licenses at one address
OrderTable ==
    <<Row(L1, <<"A">>, Dba1, Addr1, Zip1, 0), Row(L1, <<"A">>, Dba2, Addr2, Zip1, 0),
      Row(L1, <<"B">>, Dba1, AddrSt, Zip1, 1), Row(L1, <<"B">>, Dba2, Addr1, Zip2, 1),
      Row(L1, <<"B">>, NameAB, Addr1, Zip2, 9)>>

OrderRuns == {Args(OrderTable, 3, DefaultNameSimilarity, DefaultWindowDays, 2, 2)}

\* The columns a license table must have, and those it may lack
RequiredColumns == {"license_id", "business_name", "address"}
OptionalColumns == LicenseColumns \ RequiredColumns

\* Runs on a table that lacks some of the optional columns
ColumnRuns ==
    {[a EXCEPT !.data_file.columns = LicenseColumns \ lacking] :
        a \in {Args(rows, 3, 60, DefaultWindowDays, 3, 3) :
                  rows \in {<<>>} \cup {t \in ScenarioTables : t[1].address = Addr2}},
        lacking \in SUBSET OptionalColumns}

\* Runs on a path that does not exist
MissingFileRuns ==
    {[DefaultArgs(<<>>) EXCEPT !.data_file = [exists |-> FALSE, columns |-> {}, rows |-> <<>>],
                               !.address_threshold = th] : th \in Thresholds}

Init ==
    /\ pc = "load"
    /\ \/ args \in DensityRuns
       \/ args \in NameRuns
       \/ args \in DbaRuns
       \/ args \in TemporalRuns
       \/ args \in GeoRuns
       \/ args \in ScenarioRuns
       \/ args \in OrderRuns
       \/ args \in ColumnRuns
       \/ args \in MissingFileRuns
    /\ data = Unused /\ address_density = Unused /\ name_similarity = Unused
    /\ dba_patterns = Unused /\ temporal = Unused /\ geographic = Unused
    /\ summary = Unused /\ full_report = Unused /\ json_file = Unused
    /\ levenshtein \in BOOLEAN
    /\ Started
    /\ NormUnused
    /\ CrossUnused

\* variant: the error is printed and the process exits with status 0
ExitsZero(message) ==
    /\ stderr' = Append(stderr, message)
    /\ exit_code' = <<0>>
    /\ pc' = "exit"

\* except FileNotFoundError / except KeyError of cli.py main, and the path
\* check of analyze_datasets.py main: the error is printed to stderr and the
\* process exits with status 1
Fails(message) ==
    /\ stderr' = Append(stderr, message)
    /\ exit_code' = <<1>>
    /\ pc' = "exit"

\* data = load_data(args.data_file): FileNotFoundError when the path does not
\* exist
LoadData ==
    /\ pc = "load"
    /\ IF args.data_file.exists
       THEN /\ data' = [columns |-> args.data_file.columns, rows |-> args.data_file.rows]
            /\ pc' = "init"
            /\ UNCHANGED <<exit_code, stderr>>
       ELSE /\ Fails("Data file not found")
            /\ UNCHANGED data
    /\ UNCHANGED <<args, address_density, name_similarity, dba_patterns, temporal,
                   geographic, summary, full_report, json_file, normVars, crossVars,
                   levenshtein>>

\* analyzer = LicenseAnalyzer(data)
InitAnalyzer ==
    /\ pc = "init"
    /\ data' = LicenseAnalyzer(data)
    /\ pc' = "address"
    /\ UNCHANGED <<args, address_density, name_similarity, dba_patterns, temporal,
                   geographic, summary, full_report, json_file, normVars, crossVars, procVars>>

AnalyzeAddressDensity ==
    /\ pc = "address"
    /\ IF AddressDensityRaises(data)
       THEN /\ Fails("Missing required column in data")
            /\ UNCHANGED address_density
       ELSE /\ address_density' = analyze_address_density(data, args.address_threshold)
            /\ pc' = "names"
            /\ UNCHANGED <<exit_code, stderr>>
    /\ UNCHANGED <<args, data, name_similarity, dba_patterns, temporal,
                   geographic, summary, full_report, json_file, normVars, crossVars,
                   levenshtein>>

AnalyzeNameSimilarity ==
    /\ pc = "names"
    /\ name_similarity' = analyze_name_similarity(data, args.name_similarity)
    /\ pc' = "dba"
    /\ UNCHANGED <<args, data, address_density, dba_patterns, temporal,
                   geographic, summary, full_report, json_file, normVars, crossVars, procVars>>

AnalyzeDbaPatterns ==
    /\ pc = "dba"
    /\ dba_patterns' = analyze_dba_patterns(data)
    /\ pc' = "temporal"
    /\ UNCHANGED <<args, data, address_density, name_similarity, temporal,
                   geographic, summary, full_report, json_file, normVars, crossVars, procVars>>

AnalyzeTemporalClustering ==
    /\ pc = "temporal"
    /\ temporal' = analyze_temporal_clustering(data, args.temporal_window,
                                               args.temporal_threshold)
    /\ pc' = "geographic"
    /\ UNCHANGED <<args, data, address_density, name_similarity, dba_patterns,
                   geographic, summary, full_report, json_file, normVars, crossVars, procVars>>

AnalyzeGeographicConcentration ==
    /\ pc = "geographic"
    /\ IF GeographicRaises(data)
       THEN /\ Fails("Missing required column in data")
            /\ UNCHANGED geographic
       ELSE /\ geographic' = analyze_geographic_concentration(data, args.zip_threshold)
            /\ pc' = "summary"
            /\ UNCHANGED <<exit_code, stderr>>
    /\ UNCHANGED <<args, data, address_density, name_similarity, dba_patterns,
                   temporal, summary, full_report, json_file, normVars, crossVars,
                   levenshtein>>

\* summary = analyzer.generate_summary_report()
GenerateSummary ==
    /\ pc = "summary"
    /\ summary' = generate_summary_report(data)
    /\ pc' = "report"
    /\ UNCHANGED <<args, data, address_density, name_similarity, dba_patterns,
                   temporal, geographic, full_report, json_file, normVars, crossVars, procVars>>

\* reporter = Reporter(summary); full_report = reporter.generate_full_report(...),
\* written to --output or printed
GenerateReport ==
    /\ pc = "report"
    /\ full_report' = generate_full_report(address_density, name_similarity, dba_patterns,
                                           temporal, geographic, summary)
    /\ pc' = "export"
    /\ UNCHANGED <<args, data, address_density, name_similarity, dba_patterns,
                   temporal, geographic, summary, json_file, normVars, crossVars, procVars>>

\* if args.json: reporter.export_to_json(...)
ExportJson ==
    /\ pc = "export"
    /\ json_file' = export_to_json(address_density, name_similarity, dba_patterns,
                                   temporal, geographic, summary)
    /\ pc' = "exported"
    /\ exit_code' = <<0>>
    /\ UNCHANGED <<args, data, address_density, name_similarity, dba_patterns,
                   temporal, geographic, summary, full_report, normVars, crossVars,
                   levenshtein, stderr>>

\* --json not given: no file is written
SkipJson ==
    /\ pc = "export"
    /\ pc' = "done"
    /\ exit_code' = <<0>>
    /\ UNCHANGED <<args, data, address_density, name_similarity, dba_patterns, temporal,
                   geographic, summary, full_report, json_file, normVars, crossVars,
                   levenshtein, stderr>>

Next ==
    \/ LoadData
    \/ InitAnalyzer
    \/ AnalyzeAddressDensity
    \/ AnalyzeNameSimilarity
    \/ AnalyzeDbaPatterns
    \/ AnalyzeTemporalClustering
    \/ AnalyzeGeographicConcentration
    \/ GenerateSummary
    \/ GenerateReport
    \/ ExportJson
    \/ SkipJson

Spec == Init /\ [][Next]_vars

-----------------------------------------------------------------------------
(* CrossDatasetAnalyzer driven by analyze_datasets.py: specification SpecCross *)

\* pd.read_csv: a field that is one of the default missing-value markers is
\* read as missing
NaValues == {<<>>, <<"N","/","A">>, <<"N","A">>, <<"N","a","N">>, <<"n","u","l","l">>}

read_csv(field) == IF field \in NaValues THEN NaN ELSE field

\* The float NaN of a numeric column
NaNumber == [k |-> "nan"]

\* pd.to_numeric(x, errors='coerce') of one value: a missing value and a text
\* that is not a number become NaN.  The texts of the model have no exponent,
\* no '+' and no blanks, so a number is a text float() accepts made of digits,
\* '.' and '-'.
to_numeric(x) ==
    IF isna(x) THEN NaNumber
    ELSE IF KeepNumeric(x) = x /\ PyFloat(x).k # "raise" THEN PyFloat(x)
    ELSE NaNumber

\* The integer written by a sequence of digits
RECURSIVE DigitsInt(_)
DigitsInt(d) ==
    IF d = <<>> THEN 0 ELSE 10 * DigitsInt(SubSeq(d, 1, Len(d) - 1)) + DigitVal(d[Len(d)])

\* A finite amount with at most two decimals, in cents
Cents(v) ==
    LET f == v.fp \o <<"0", "0">>
        c == 100 * DigitsInt(v.ip) + 10 * DigitVal(f[1]) + DigitVal(f[2])
    IN  IF v.neg THEN 0 - c ELSE c

\* variant: the amount of the first row only
first(s) == IF Len(s) = 0 \/ s[1].k # "fin" THEN 0 ELSE Cents(s[1])

\* Series.sum(): missing values are skipped; in cents
RECURSIVE sum(_)
sum(s) ==
    IF Len(s) = 0 THEN 0
    ELSE IF Len(s) = 1 THEN (IF s[1].k = "fin" THEN Cents(s[1]) ELSE 0)
    ELSE LET half == Len(s) \div 2
         IN  sum(SubSeq(s, 1, half)) + sum(SubSeq(s, half + 1, Len(s)))

\* Series.mean(): missing values are skipped; NaN when nothing is left
mean(s) ==
    LET present == SelectSeq(s, LAMBDA v : v.k = "fin")
    IN  Ratio(sum(present), 100 * Len(present))

\* CrossDatasetAnalyzer._load_licenses
_load_licenses(file) ==
    [i \in 1..Len(file) |->
        [business_name |-> read_csv(file[i].business_name),
         dba_name      |-> read_csv(file[i].dba_name),
         address       |-> read_csv(file[i].address)]]

\* Days of the months of a common year
MonthLengths == <<31, 28, 31, 30, 31, 30, 31, 31, 30, 31, 30, 31>>

IsLeap(y) == (y % 4 = 0 /\ y % 100 # 0) \/ y % 400 = 0

DaysIn(y, m) == IF m = 2 /\ IsLeap(y) THEN 29 ELSE MonthLengths[m]

\* the days from 1 January of year 1 to 1 January of year y
DaysBeforeYear(y) ==
    365 * (y - 1) + ((y - 1) \div 4) - ((y - 1) \div 100) + ((y - 1) \div 400)

\* the days from 1 January of year y to the first day of its month m
RECURSIVE DaysBeforeMonth(_, _)
DaysBeforeMonth(y, m) ==
    IF m = 1 THEN 0 ELSE DaysBeforeMonth(y, m - 1) + DaysIn(y, m - 1)

\* A date written YYYY-MM-DD
IsIsoDate(x) ==
    /\ Len(x) = 10
    /\ x[5] = "-" /\ x[8] = "-"
    /\ \A i \in {1, 2, 3, 4, 6, 7, 9, 10} : x[i] \in Digits

\* pd.to_datetime(cell, errors='coerce'): the day number of a date, NaT for a
\* missing cell, for text that is not a date and for a date that does not
\* exist or is outside the years a Timestamp holds in full (1678 to 2261)
parse_date(x) ==
    IF isna(x) THEN NaT
    ELSE IF ~IsIsoDate(x) THEN NaT
    ELSE LET y == DigitsInt(SubSeq(x, 1, 4))
             m == DigitsInt(SubSeq(x, 6, 7))
             d == DigitsInt(SubSeq(x, 9, 10))
         IN  IF y \in 1678..2261 /\ m \in 1..12 /\ d \in 1..DaysIn(y, m)
             THEN DaysBeforeYear(y) + DaysBeforeMonth(y, m) + d - 1
             ELSE NaT

\* the year and the month of a day number
YearOf(n) ==
    CHOOSE y \in ((n \div 366) + 1)..((n \div 365) + 1) :
        DaysBeforeYear(y) <= n /\ n < DaysBeforeYear(y + 1)

MonthOf(n) ==
    CHOOSE m \in 1..12 :
        /\ DaysBeforeMonth(YearOf(n), m) <= n - DaysBeforeYear(YearOf(n))
        /\ n - DaysBeforeYear(YearOf(n)) < DaysBeforeMonth(YearOf(n), m) + DaysIn(YearOf(n), m)

\* Series.dt.to_period('M'): the months are numbered from January of year 0
to_period(n) == 12 * YearOf(n) + MonthOf(n) - 1

\* CrossDatasetAnalyzer._load_contracts
_load_contracts(file) ==
    [i \in 1..Len(file) |->
        [agency                 |-> read_csv(file[i].agency),
         contract_number        |-> read_csv(file[i].contract_number),
         supplier               |-> read_csv(file[i].supplier),
         contract_value         |-> read_csv(file[i].contract_value),
         effective_from         |-> parse_date(read_csv(file[i].effective_from)),
         effective_to           |-> parse_date(read_csv(file[i].effective_to)),
         contract_value_numeric |->
             _parse_currency(IF isna(read_csv(file[i].contract_value))
                             THEN [t |-> "nan"]
                             ELSE [t |-> "str", s |-> file[i].contract_value])]]

\* CrossDatasetAnalyzer._load_taxes
_load_taxes(file) ==
    [i \in 1..Len(file) |->
        [owner_name_1     |-> read_csv(file[i].owner_name_1),
         address          |-> read_csv(file[i].address),
         total_due        |-> to_numeric(read_csv(file[i].total_due)),
         years_delinquent |-> to_numeric(read_csv(file[i].years_delinquent))]]

\* CrossDatasetAnalyzer._normalize_addresses and _normalize_names, per table
NormalizedLicenses(rows) ==
    [i \in 1..Len(rows) |->
        [business_name |-> rows[i].business_name,
         dba_name      |-> rows[i].dba_name,
         address       |-> rows[i].address,
         address_normalized       |-> normalize_addr(rows[i].address),
         business_name_normalized |-> normalize_name(rows[i].business_name),
         dba_normalized           |-> normalize_name(rows[i].dba_name)]]

NormalizedContracts(rows) ==
    [i \in 1..Len(rows) |->
        [agency                 |-> rows[i].agency,
         contract_number        |-> rows[i].contract_number,
         supplier               |-> rows[i].supplier,
         contract_value         |-> rows[i].contract_value,
         effective_from         |-> rows[i].effective_from,
         effective_to           |-> rows[i].effective_to,
         contract_value_numeric |-> rows[i].contract_value_numeric,
         supplier_normalized    |-> normalize_name(rows[i].supplier)]]

NormalizedTaxes(rows) ==
    [i \in 1..Len(rows) |->
        [owner_name_1     |-> rows[i].owner_name_1,
         address          |-> rows[i].address,
         total_due        |-> rows[i].total_due,
         years_delinquent |-> rows[i].years_delinquent,
         address_normalized |-> normalize_addr(rows[i].address),
         owner_normalized   |-> normalize_name(rows[i].owner_name_1)]]

\* findings[:50] and density_findings[:50]
OverlapCap == 50

\* Default of analyze_address_clustering's threshold
DefaultDensityThreshold == 2

\* min(1.0, n / 10)
CappedTenth(n) == Ratio(IF n < 10 THEN n ELSE 10, 10)

RiskNum(f) == f.risk_score.num

\* key=lambda x: x['risk_score'] over a list of findings
RiskKeys(fs) == [i \in 1..Len(fs) |-> RiskNum(fs[i])]

\* set(...).intersection(...) of the normalized addresses of the two tables
SharedAddresses(lic, tax) ==
    {lic[i].address_normalized : i \in 1..Len(lic)}
        \cap {tax[i].address_normalized : i \in 1..Len(tax)}

Reverse(s) == [i \in 1..Len(s) |-> s[Len(s) + 1 - i]]

Rotate(s, k) == [i \in 1..Len(s) |-> s[((i + k - 1) % Len(s)) + 1]]

\* Orders in which a set of strings is iterated.  The order depends on the
\* hash seed of the interpreter; the model takes the rotations of the sorted
\* order and of its reverse, which are all orders of a set of up to 3 elements.
Orders(S) ==
    IF S = {} THEN {<<>>}
    ELSE LET sorted == SortedTexts(S)
         IN  {Rotate(sorted, k) : k \in 0..(Len(sorted) - 1)}
             \cup {Rotate(Reverse(sorted), k) : k \in 0..(Len(sorted) - 1)}

\* Series.value_counts(): the distinct values with their counts, largest
\* count first, equal counts in order of first appearance
value_counts(s) ==
    LET values == unique(s)
        counts == [i \in 1..Len(values) |->
                      [address       |-> values[i],
                       license_count |-> Len(SelectSeq(s, LAMBDA x : x = values[i]))]]
    IN  SortDesc(counts, Column(counts, "license_count"))

\* CrossDatasetAnalyzer.analyze_address_clustering, the shared addresses
\* being iterated in the given order
analyze_address_clustering(lic, tax, threshold, order) ==
    LET license_addresses == {lic[i].address_normalized : i \in 1..Len(lic)}
        tax_addresses     == {tax[i].address_normalized : i \in 1..Len(tax)}
        visited  == SelectSeq(order, LAMBDA addr : addr # <<>>)
        Finding(addr) ==
            LET license_matches == SelectSeq(lic, LAMBDA r : r.address_normalized = addr)
                tax_matches     == SelectSeq(tax, LAMBDA r : r.address_normalized = addr)
            IN  [address              |-> addr,
                 license_count        |-> Len(license_matches),
                 tax_delinquent_count |-> Len(tax_matches),
                 businesses           |-> head(Column(license_matches, "business_name"), 5),
                 total_tax_due        |-> sum(Column(tax_matches, "total_due")),
                 avg_years_delinquent |->
                     mean(Column(tax_matches, "years_delinquent")),
                 pattern_type         |-> "ADDRESS_OVERLAP_LICENSE_TAX",
                 risk_score           |->
                     CappedTenth(Len(license_matches) + Len(tax_matches))]
        findings_ == [i \in 1..Len(visited) |-> Finding(visited[i])]
        dense == SelectSeq(value_counts(Column(lic, "address_normalized")),
                           LAMBDA c : c.license_count >= threshold /\ c.address # <<>>)
        density_findings ==
            [i \in 1..Len(dense) |->
                [address       |-> dense[i].address,
                 license_count |-> dense[i].license_count,
                 businesses    |->
                     head(Column(SelectSeq(lic, LAMBDA r : r.address_normalized =
                                                               dense[i].address), "business_name"), 10),
                 pattern_type  |-> "ADDRESS_DENSITY",
                 risk_score    |-> CappedTenth(dense[i].license_count)]]
    IN  [cross_dataset_overlaps |-> head(SortDesc(findings_, RiskKeys(findings_)), OverlapCap),
         address_density        |->
             head(SortDesc(density_findings, RiskKeys(density_findings)), OverlapCap),
         total_shared_addresses |-> Cardinality(license_addresses \cap tax_addresses),
         summary |->
            [total_license_addresses |-> Cardinality(license_addresses),
             total_tax_addresses     |-> Cardinality(tax_addresses),
             overlap_count           |-> Cardinality(license_addresses \cap tax_addresses)]]

\* Default of the cross-dataset analyze_name_similarity's threshold, in hundredths
DefaultMatchThreshold == 85

\* matches[:100] and tax_delinquent_matches[:100]
MatchCap == 100

\* "if not name or len(name) < 3: continue"
MinNameLen == 3

\* variant: every name is compared
AnyName(name) == TRUE

Comparable(name) == Len(name) >= MinNameLen

\* the greatest common divisor of a natural number and a positive one
RECURSIVE GCD(_, _)
GCD(a, b) == IF a = 0 THEN b ELSE GCD(b % a, a)

\* the fraction n/d in lowest terms
Lowest(n, d) ==
    LET g == GCD(IF n < 0 THEN 0 - n ELSE n, d)
    IN  Ratio(n \div g, d \div g)

\* variant: the metric divided by the cap, without the ceiling
Uncapped(n, per) == Lowest(n, per)

\* min(1.0, n / per)
Capped(n, per) == Lowest(IF n < per THEN n ELSE per, per)

\* round(similarity * factor, 3), in thousandths; the scale is divided by what
\* it shares with the denominator of the factor
Round3(similarity, factor) ==
    LET g == GCD(1000, factor.den)
    IN  Ratio(Rounded(Ratio(similarity.num * factor.num,
                            similarity.den * (factor.den \div g)), 1000 \div g), 1000)

\* min(1.0, contract_count / 5)
ContractFactor(contract_count) == Capped(contract_count, 5)

\* min(1.0, total_due / 10000), the amount in cents
TaxFactor(total_due) == Capped(total_due, 1000000)

\* the pairs <<a, b>> of two lists of names the nested loops keep, in loop order
MatchingPairs(as, bs, threshold) ==
    Flatten([i \in 1..Len(as) |->
                IF ~Comparable(as[i]) THEN <<>>
                ELSE LET kept == SelectSeq(bs, LAMBDA b : Comparable(b) /\ Similar(as[i], b, threshold))
                     IN  [j \in 1..Len(kept) |-> <<as[i], kept[j]>>]])

\* CrossDatasetAnalyzer.analyze_name_similarity
cross_name_similarity(lic, con, tax, threshold) ==
    IF ~levenshtein
    THEN [error |-> "python-Levenshtein not installed", matches |-> <<>>]
    ELSE
    LET license_names      == unique(dropna(Column(lic, "business_name_normalized")))
        contract_suppliers == unique(dropna(Column(con, "supplier_normalized")))
        tax_owners         == unique(dropna(Column(tax, "owner_normalized")))
        ContractMatch(license_name, supplier) ==
            LET supplier_contracts == SelectSeq(con, LAMBDA r : r.supplier_normalized = supplier)
            IN  [license_name         |-> license_name,
                 contract_supplier    |-> supplier,
                 similarity_score     |-> Round3(ratio(license_name, supplier), Ratio(1, 1)),
                 contract_count       |-> Len(supplier_contracts),
                 total_contract_value |-> sum(Column(supplier_contracts, "contract_value_numeric")),
                 agencies             |-> unique(Column(supplier_contracts, "agency")),
                 pattern_type         |-> "LICENSE_CONTRACT_NAME_MATCH",
                 risk_score           |-> Round3(ratio(license_name, supplier),
                                                 ContractFactor(Len(supplier_contracts)))]
        TaxMatch(license_name, owner) ==
            LET owner_records == SelectSeq(tax, LAMBDA r : r.owner_normalized = owner)
            IN  [license_name     |-> license_name,
                 tax_owner        |-> owner,
                 similarity_score |-> Round3(ratio(license_name, owner), Ratio(1, 1)),
                 property_count   |-> Len(owner_records),
                 total_tax_due    |-> sum(Column(owner_records, "total_due")),
                 pattern_type     |-> "LICENSE_TAX_OWNER_MATCH",
                 risk_score       |-> Round3(ratio(license_name, owner),
                                             TaxFactor(sum(Column(owner_records, "total_due"))))]
        cpairs  == MatchingPairs(license_names, contract_suppliers, threshold)
        tpairs  == MatchingPairs(license_names, tax_owners, threshold)
        matches == [i \in 1..Len(cpairs) |-> ContractMatch(cpairs[i][1], cpairs[i][2])]
        tax_delinquent_matches == [i \in 1..Len(tpairs) |-> TaxMatch(tpairs[i][1], tpairs[i][2])]
    IN  [license_contract_matches  |-> head(SortDesc(matches, RiskKeys(matches)), MatchCap),
         license_tax_owner_matches |->
             head(SortDesc(tax_delinquent_matches, RiskKeys(tax_delinquent_matches)), MatchCap),
         summary |->
            [total_license_names            |-> Len(license_names),
             total_suppliers                |-> Len(contract_suppliers),
             total_tax_owners               |-> Len(tax_owners),
             license_contract_matches_found |-> Len(matches),
             license_tax_matches_found      |-> Len(tax_delinquent_matches)]]

\* total_due >= 5000, in cents
HighValueDue == 500000

\* years_delinquent >= 3, in hundredths
LongTermYears == 300

\* high_value_delinquent.head(100)
TaxRowCap == 100

\* similarity >= 0.80 of an owner and a business name, in hundredths
OwnerBusinessThreshold == 80

\* similarity >= 0.85 of a supplier and an owner, in hundredths
SupplierOwnerThreshold == 85

\* [:30] of business_owner_matches and of supplier_tax_matches
TaxMatchCap == 30

\* .head(20) of the delinquency lists
DelinquencyCap == 20

\* the amount of a numeric cell in hundredths, for a cell that is a number
Amount(v) == IF v.k = "fin" THEN Cents(v) ELSE 0

\* column >= bound of a numeric column: false for NaN
AtLeast(v, bound) == v.k = "fin" /\ Cents(v) >= bound

\* variant: the rows in file order
Unsorted(rows, col) == rows

\* df.sort_values(col, ascending=False) of rows whose col is a number
sort_values_desc(rows, col) ==
    SortDesc(rows, [i \in 1..Len(rows) |-> Amount(rows[i][col])])

\* taxes[taxes['total_due'] >= 5000].sort_values('total_due', ascending=False)
HighValueDelinquent(tax) ==
    sort_values_desc(SelectSeq(tax, LAMBDA r : AtLeast(r.total_due, HighValueDue)), "total_due")

\* CrossDatasetAnalyzer.analyze_tax_delinquent_overlaps
analyze_tax_delinquent_overlaps(lic, con, tax) ==
    IF ~levenshtein
    THEN [error |-> "python-Levenshtein not installed"]
    ELSE
    LET high_value_delinquent == HighValueDelinquent(tax)
        long_term ==
            sort_values_desc(SelectSeq(tax, LAMBDA r : AtLeast(r.years_delinquent, LongTermYears)),
                             "years_delinquent")
        Listed(rows) ==
            [i \in 1..Len(rows) |->
                [owner_name_1     |-> rows[i].owner_name_1,
                 address          |-> rows[i].address,
                 total_due        |-> rows[i].total_due,
                 years_delinquent |-> rows[i].years_delinquent]]
        checked == head(high_value_delinquent, TaxRowCap)
        BusinessMatches(tax_row) ==
            IF ~Comparable(tax_row.owner_normalized) THEN <<>>
            ELSE LET similar ==
                         SelectSeq(lic, LAMBDA l :
                             /\ Comparable(l.business_name_normalized)
                             /\ Similar(tax_row.owner_normalized, l.business_name_normalized,
                                        OwnerBusinessThreshold))
                 IN  [j \in 1..Len(similar) |->
                         [tax_owner        |-> tax_row.owner_name_1,
                          business_name    |-> similar[j].business_name,
                          similarity       |->
                              Round3(ratio(tax_row.owner_normalized,
                                           similar[j].business_name_normalized), Ratio(1, 1)),
                          tax_address      |-> tax_row.address,
                          business_address |-> similar[j].address,
                          total_due        |-> tax_row.total_due,
                          years_delinquent |-> tax_row.years_delinquent,
                          pattern_type     |-> "HIGH_VALUE_TAX_BUSINESS_MATCH"]]
        matches_with_businesses ==
            Flatten([i \in 1..Len(checked) |-> BusinessMatches(checked[i])])
        suppliers == unique(dropna(Column(con, "supplier_normalized")))
        SupplierMatches(supplier) ==
            IF ~Comparable(supplier) THEN <<>>
            ELSE LET supplier_contracts ==
                         SelectSeq(con, LAMBDA r : r.supplier_normalized = supplier)
                     similar ==
                         SelectSeq(tax, LAMBDA t :
                             /\ Comparable(t.owner_normalized)
                             /\ Similar(supplier, t.owner_normalized, SupplierOwnerThreshold))
                 IN  [j \in 1..Len(similar) |->
                         [supplier         |-> supplier,
                          tax_owner        |-> similar[j].owner_name_1,
                          similarity       |->
                              Round3(ratio(supplier, similar[j].owner_normalized), Ratio(1, 1)),
                          contract_count   |-> Len(supplier_contracts),
                          contract_value   |->
                              sum(Column(supplier_contracts, "contract_value_numeric")),
                          total_tax_due    |-> similar[j].total_due,
                          years_delinquent |-> similar[j].years_delinquent,
                          pattern_type     |-> "SUPPLIER_TAX_DELINQUENT"]]
        supplier_tax_matches ==
            Flatten([i \in 1..Len(suppliers) |-> SupplierMatches(suppliers[i])])
    IN  [high_value_delinquencies |-> head(Listed(high_value_delinquent), DelinquencyCap),
         long_term_delinquencies  |-> head(Listed(long_term), DelinquencyCap),
         business_owner_matches   |->
             head(sort_values_desc(matches_with_businesses, "total_due"), TaxMatchCap),
         supplier_tax_matches     |->
             head(SortDesc(supplier_tax_matches, Column(supplier_tax_matches, "contract_value")),
                  TaxMatchCap),
         summary |->
            [total_delinquent_properties |-> Len(tax),
             total_tax_due               |-> sum(Column(tax, "total_due")),
             high_value_count            |-> Len(high_value_delinquent),
             long_term_count             |-> Len(long_term),
             business_matches_found      |-> Len(matches_with_businesses),
             supplier_matches_found      |-> Len(supplier_tax_matches)]]

\* supplier_agency['agency_count'] >= 3
MultiAgencyMin == 3

\* multi_agency.head(20)
MultiAgencyCap == 20

\* Series.nunique(): the number of distinct non-missing values
nunique(s) == Cardinality(Range(s) \ {NaN})

\* the sum of a sequence of integers
RECURSIVE sum_ints(_)
sum_ints(s) ==
    IF Len(s) = 0 THEN 0
    ELSE IF Len(s) = 1 THEN s[1]
    ELSE LET half == Len(s) \div 2
         IN  sum_ints(SubSeq(s, 1, half)) + sum_ints(SubSeq(s, half + 1, Len(s)))

\* contracts.groupby('supplier')['agency'].nunique().reset_index(): one row
\* per supplier, suppliers ascending
SupplierAgency(con) ==
    LET groups == groupby(con, "supplier")
    IN  [g \in 1..Len(groups) |->
            [supplier     |-> groups[g].key,
             agency_count |-> nunique(Column(groups[g].rows, "agency"))]]

\* CrossDatasetAnalyzer.analyze_agency_concentration; every line of the
\* model's contract files has a contract number
analyze_agency_concentration(con) ==
    LET by_agency == groupby(con, "agency")
        agency_stats ==
            [g \in 1..Len(by_agency) |->
                [agency           |-> by_agency[g].key,
                 contract_count   |-> Len(by_agency[g].rows),
                 total_value      |-> sum(Column(by_agency[g].rows, "contract_value_numeric")),
                 unique_suppliers |-> nunique(Column(by_agency[g].rows, "supplier"))]]
        agencies == unique(dropna(Column(con, "agency")))
        Concentration(agency) ==
            LET agency_contracts == SelectSeq(con, LAMBDA r : r.agency = agency)
                by_supplier      == groupby(agency_contracts, "supplier")
                supplier_values  ==
                    [g \in 1..Len(by_supplier) |->
                        [supplier |-> by_supplier[g].key,
                         value    |-> sum(Column(by_supplier[g].rows, "contract_value_numeric"))]]
                largest == head(SortDesc(supplier_values, Column(supplier_values, "value")), 3)
                total_value == sum_ints(Column(supplier_values, "value"))
                top_3_value == sum_ints(Column(largest, "value"))
                floor       == IF total_value > 100 THEN total_value ELSE 100
            IN  IF Len(supplier_values) > 0 /\ 2 * top_3_value > floor
                THEN <<[agency           |-> agency,
                        total_contracts  |-> Len(agency_contracts),
                        total_value      |-> total_value,
                        unique_suppliers |-> Len(supplier_values),
                        top_3_suppliers  |-> Column(largest, "supplier"),
                        top_3_value      |-> top_3_value,
                        top_3_share      |-> Round3(Lowest(top_3_value, floor), Ratio(1, 1)),
                        pattern_type     |-> "SUPPLIER_CONCENTRATION"]>>
                ELSE <<>>
        agency_supplier_concentration ==
            Flatten([i \in 1..Len(agencies) |-> Concentration(agencies[i])])
        supplier_agency == SupplierAgency(con)
        multi_agency ==
            SelectSeq(supplier_agency, LAMBDA r : r.agency_count >= MultiAgencyMin)
        listed == head(multi_agency, MultiAgencyCap)
        multi_agency_findings ==
            [i \in 1..Len(listed) |->
                LET supplier_contracts == SelectSeq(con, LAMBDA r : r.supplier = listed[i].supplier)
                IN  [supplier        |-> listed[i].supplier,
                     agency_count    |-> listed[i].agency_count,
                     agencies        |-> unique(Column(supplier_contracts, "agency")),
                     total_contracts |-> Len(supplier_contracts),
                     total_value     |->
                         sum(Column(supplier_contracts, "contract_value_numeric")),
                     pattern_type    |-> "MULTI_AGENCY_SUPPLIER"]]
    IN  [agency_statistics      |-> SortDesc(agency_stats, Column(agency_stats, "total_value")),
         supplier_concentration |->
             SortDesc(agency_supplier_concentration,
                      [i \in 1..Len(agency_supplier_concentration) |->
                          agency_supplier_concentration[i].top_3_share.num]),
         multi_agency_suppliers |-> multi_agency_findings,
         summary |->
            [total_agencies   |-> nunique(Column(con, "agency")),
             total_suppliers  |-> nunique(Column(con, "supplier")),
             agencies_with_high_concentration |-> Len(agency_supplier_concentration),
             suppliers_with_multiple_agencies |-> Len(multi_agency)]]

\* Contracts of fewer days than this are short, days with this many awards
\* and more are reported, and the lists of findings are cut at TimingCap
ShortDays == 30
SameDayMin == 3
TimingCap == 50

\* variant: a contract of exactly 30 days is short too
AtMostShortDays(r) ==
    /\ r.effective_from # NaT /\ r.effective_to # NaT
    /\ r.effective_to - r.effective_from <= ShortDays

\* contracts['duration_days'] < 30: a duration is missing, and the comparison
\* false, when one of the two dates is missing
IsShort(r) ==
    /\ r.effective_from # NaT /\ r.effective_to # NaT
    /\ r.effective_to - r.effective_from < ShortDays

\* count > mean + 2 * std for the counts of k groups with sum n and sum of
\* squares sq, std being the sample standard deviation (missing for one group)
AboveTwoSigma(c, k, n, sq) ==
    /\ k >= 2
    /\ k * c > n
    /\ (k * c - n) * (k * c - n) * (k - 1) > 4 * k * (k * sq - n * n)

\* The findings of one column of start dates or start months: the groups in
\* ascending order of their key, with their size and their summed value
StartGroups(started, keys, keyOf(_)) ==
    [g \in 1..Len(keys) |->
        [key            |-> keys[g],
         contract_count |-> Len(SelectSeq(started, LAMBDA r : keyOf(r) = keys[g])),
         total_value    |-> sum(Column(SelectSeq(started, LAMBDA r : keyOf(r) = keys[g]),
                                       "contract_value_numeric")),
         suppliers      |-> unique(Column(SelectSeq(started, LAMBDA r : keyOf(r) = keys[g]),
                                          "supplier"))]]

Tagged(groups, tag) ==
    [g \in 1..Len(groups) |->
        [key            |-> groups[g].key,
         contract_count |-> groups[g].contract_count,
         total_value    |-> groups[g].total_value,
         suppliers      |-> groups[g].suppliers,
         pattern_type   |-> tag]]

TimingResult(months, days, short) ==
    LET counts == Column(months, "contract_count")
        k      == Len(months)
        n      == sum_ints(counts)
        sq     == sum_ints(Materialized([g \in 1..k |-> counts[g] * counts[g]]))
        spikes == SelectSeq(months, LAMBDA g : AboveTwoSigma(g.contract_count, k, n, sq))
        awards == SelectSeq(days, LAMBDA g : g.contract_count >= SameDayMin)
    IN  [temporal_spikes |-> Tagged(spikes, "TEMPORAL_SPIKE"),
         same_day_awards |-> head(Tagged(awards, "SAME_DAY_AWARDS"), TimingCap),
         short_duration_contracts |->
             head([i \in 1..Len(short) |->
                      [contract_number |-> short[i].contract_number,
                       supplier        |-> short[i].supplier,
                       agency          |-> short[i].agency,
                       duration_days   |-> short[i].effective_to - short[i].effective_from,
                       value           |-> short[i].contract_value_numeric,
                       pattern_type    |-> "SHORT_DURATION"]], TimingCap),
         summary |->
             [avg_monthly_contracts     |-> Rounded(Ratio(n, k), 10),
              months_with_spikes        |-> Len(spikes),
              days_with_multiple_awards |-> Len(awards),
              short_duration_count      |-> Len(short)]]

\* CrossDatasetAnalyzer.analyze_contract_timing: the months with unusually
\* many contract starts, the days with three or more starts, and the short
\* contracts; a contract without a start date is in no month and no day
analyze_contract_timing(con) ==
    LET started == SelectSeq(con, LAMBDA r : r.effective_from # NaT)
        froms   == {started[i].effective_from : i \in 1..Len(started)}
    IN  TimingResult(
            Materialized(StartGroups(started, SortedInts({to_period(d) : d \in froms}),
                                     LAMBDA r : to_period(r.effective_from))),
            Materialized(StartGroups(started, SortedInts(froms),
                                     LAMBDA r : r.effective_from)),
            SelectSeq(con, IsShort))

\* CrossDatasetAnalyzer.generate_comprehensive_report, from the results of
\* the analyses: the categories of the key findings, the dataset summary and
\* the analyses
comprehensive_report(lic, con, tax, address, names, timing, agency, overlaps) ==
    LET Found(analysis, field) ==
            "summary" \in DOMAIN analysis /\ analysis.summary[field] > 0
        key_findings ==
            (IF address.total_shared_addresses > 0 THEN <<"Address Clustering">> ELSE <<>>)
            \o (IF Found(names, "license_contract_matches_found")
                THEN <<"Name Similarity">> ELSE <<>>)
            \o (IF Found(timing, "months_with_spikes")
                THEN <<"Contract Timing">> ELSE <<>>)
            \o (IF Found(agency, "agencies_with_high_concentration")
                THEN <<"Agency Concentration">> ELSE <<>>)
            \o (IF Found(overlaps, "supplier_matches_found")
                THEN <<"Tax Delinquency Overlaps">> ELSE <<>>)
    IN  [dataset_summary |->
            [business_licenses |->
                [total_records     |-> Len(lic),
                 unique_businesses |-> nunique(Column(lic, "business_name")),
                 unique_addresses  |-> nunique(Column(lic, "address"))],
             city_contracts |->
                [total_records    |-> Len(con),
                 total_value      |-> sum(Column(con, "contract_value_numeric")),
                 unique_suppliers |-> nunique(Column(con, "supplier")),
                 unique_agencies  |-> nunique(Column(con, "agency"))],
             delinquent_taxes |->
                [total_records |-> Len(tax),
                 total_due     |-> sum(Column(tax, "total_due")),
                 unique_owners |-> nunique(Column(tax, "owner_name_1"))]],
         analyses |->
            [address_clustering      |-> address,
             name_similarity         |-> names,
             contract_timing         |-> timing,
             agency_concentration    |-> agency,
             tax_delinquent_overlaps |-> overlaps],
         key_findings |-> key_findings]

\* The section headings of format_report
ReportSections ==
    <<"DATASET OVERVIEW", "KEY FINDINGS", "ADDRESS CLUSTERING ANALYSIS",
      "NAME SIMILARITY ANALYSIS", "CONTRACT TIMING ANALYSIS", "PROCUREMENT TYPE ANALYSIS",
      "AGENCY CONCENTRATION ANALYSIS", "TAX DELINQUENT OVERLAPS",
      "FOLLOW-UP DATA RECOMMENDATIONS", "END OF REPORT">>

\* format_report: the headings, and under a heading the lists that are shown
\* (a list is shown when the analysis has it and it is not empty)
format_report(res) ==
    LET Shown(analysis, field) ==
            IF field \in DOMAIN res.analyses[analysis]
                  /\ res.analyses[analysis][field] # <<>>
            THEN {<<analysis, field>>} ELSE {}
    IN  [sections |-> ReportSections,
         key_findings |-> res.key_findings,
         lists |-> Shown("address_clustering", "cross_dataset_overlaps")
                   \cup Shown("address_clustering", "address_density")
                   \cup Shown("name_similarity", "license_contract_matches")
                   \cup Shown("contract_timing", "temporal_spikes")
                   \cup Shown("contract_timing", "same_day_awards")
                   \cup Shown("agency_concentration", "supplier_concentration")
                   \cup Shown("agency_concentration", "multi_agency_suppliers")
                   \cup Shown("tax_delinquent_overlaps", "supplier_tax_matches"),
         counts |-> {a \in {"name_similarity", "tax_delinquent_overlaps"} :
                        "summary" \in DOMAIN res.analyses[a]}]

\* Fields of the input files
Priced == <<"$","1","2",",","3","4","5",".","6","7">>
Plain == <<"1","2","3","4","5",".","6","7">>
NotApplicable == <<"N","/","A">>
FiveHundred == <<"5","0","0">>
Years3 == <<"3">>
Blank == <<>>
OwnerAB == <<"A","B"," ","L","L","C">>
AddrOak == <<"7"," ","o","a","k"," ","a","v","e","n","u","e">>

LicenseLine(name, addr) == [business_name |-> name, dba_name |-> Blank, address |-> addr]

TaxLine(addr, due, years) ==
    [owner_name_1 |-> OwnerAB, address |-> addr, total_due |-> due,
     years_delinquent |-> years]

LicenseLines ==
    {LicenseLine(NameAB, AddrStreet), LicenseLine(NameAB, Addr2), LicenseLine(NameAB, Blank)}

TaxLines ==
    {TaxLine(AddrSt, Priced, Years3), TaxLine(AddrSt, NotApplicable, NotApplicable),
     TaxLine(AddrSt, Plain, Years3), TaxLine(AddrOak, FiveHundred, Years3),
     TaxLine(Blank, FiveHundred, Years3)}

Parks == <<"P","a","r","k","s">>

\* The decimal digits of a positive number
RECURSIVE DigitsOf(_)
DigitsOf(n) ==
    IF n < 10 THEN <<<<"0","1","2","3","4","5","6","7","8","9">>[n + 1]>>
    ELSE DigitsOf(n \div 10) \o DigitsOf(n % 10)

\* A date of 2024 as it is written in the contracts file
Pad2(n) == IF n < 10 THEN <<"0">> \o DigitsOf(n) ELSE DigitsOf(n)
Date2024(month, day) == <<"2","0","2","4","-">> \o Pad2(month) \o <<"-">> \o Pad2(day)

ContractNumber(k) == <<"C","-">> \o DigitsOf(k)

DatedContractLine(number, agency, supplier, value, from, to) ==
    [agency |-> agency, contract_number |-> number, supplier |-> supplier,
     contract_value |-> value, effective_from |-> from, effective_to |-> to]

\* A contract for the whole of 2024
ContractLine(agency, supplier, value) ==
    DatedContractLine(ContractNumber(1), agency, supplier, value,
                      Date2024(1, 1), Date2024(12, 31))

ContractFile == <<ContractLine(Parks, OwnerAB, Priced)>>

ElmAddress(k) == DigitsOf(k) \o <<" ","E","l","m">>

\* The three paths of the command line, in the order main checks them
InputNames == <<"licenses", "contracts", "taxes">>

\* The files at the three paths; missing is the set of paths at which there
\* is no file
Files(lic, con, tax) ==
    [licenses |-> lic, contracts |-> con, taxes |-> tax, missing |-> {}]

\* Files in which n addresses each have one license and one tax record, the
\* first address one more tax record
WideFiles(n) ==
    Files([k \in 1..n |-> LicenseLine(NameAB, ElmAddress(k))],
          ContractFile,
          <<TaxLine(ElmAddress(1), Plain, Years3)>>
              \o [k \in 1..n |-> TaxLine(ElmAddress(k), FiveHundred, Years3)])

\* License files of the model have at most MaxLines lines, tax files at most
\* MaxRows.
MaxLines == 2

\* Names of the matching scenarios
Acme == <<"A","c","m","e">>
AcmeInc == <<"A","c","m","e"," ","I","n","c">>
Acmes == <<"A","C","M","E","S">>
Zed == <<"Z","e","d">>
Roads == <<"R","o","a","d","s">>
Water == <<"W","a","t","e","r">>
SixThousand == <<"6","0","0","0">>
FortyCents == <<"0",".","4","0">>
Refund == <<"-","9","0","0","0">>

OwnedTaxLine(owner, due) ==
    [owner_name_1 |-> owner, address |-> AddrOak, total_due |-> due, years_delinquent |-> Years3]

NameLicenseLines == {LicenseLine(Acme, Addr2), LicenseLine(NameAB, Addr2)}

NameTaxLines ==
    {OwnedTaxLine(AcmeInc, Plain), OwnedTaxLine(Acmes, SixThousand),
     OwnedTaxLine(Acme, Refund), OwnedTaxLine(Zed, FiveHundred)}

\* Contract files: none, one contract, one contract of less than a dollar,
\* and six contracts of two suppliers with three agencies
ContractFiles ==
    {<<>>,
     <<ContractLine(Parks, Acmes, Priced)>>,
     <<ContractLine(Water, Acmes, FortyCents)>>,
     <<ContractLine(Parks, AcmeInc, Priced), ContractLine(Roads, AcmeInc, Priced),
       ContractLine(Water, AcmeInc, Priced), ContractLine(Parks, AcmeInc, Plain),
       ContractLine(Parks, AcmeInc, Plain), ContractLine(Parks, Acmes, FiveHundred)>>}

NameFiles ==
    {Files(lic, con, tax) : lic \in Tables(NameLicenseLines, MaxLines),
                            con \in ContractFiles,
                            tax \in Tables(NameTaxLines, MaxLines)}

\* Tax files of n + 1 high-value records with different amounts, the first
\* line the smallest or the largest amount, and the only one whose owner has
\* a license
TaxCapFiles(n) ==
    {Files(<<LicenseLine(Acme, Addr2)>>, ContractFile,
           <<OwnedTaxLine(Acme, DigitsOf(due1))>>
               \o [k \in 1..n |-> OwnedTaxLine(Zed, DigitsOf(6000 + k))]) :
        due1 \in {5000, 9000}}

Supplier(k) == <<"S","u","p"," ">> \o DigitsOf(100 + k)

\* Contract files in which n + 1 suppliers have three agencies each, and the
\* last supplier a fourth
AgencyFiles(n) ==
    Files(<<LicenseLine(Acme, Addr2)>>,
          Flatten([k \in 1..(n + 1) |->
                      <<ContractLine(Parks, Supplier(k), FiveHundred),
                        ContractLine(Roads, Supplier(k), FiveHundred),
                        ContractLine(Water, Supplier(k), FiveHundred)>>])
              \o <<ContractLine(Blank, Supplier(n + 1), FiveHundred),
                   ContractLine(Acme, Supplier(n + 1), FiveHundred)>>,
          <<>>)

\* A field that is not a date, and a date that does not exist
ToBeDecided == <<"T","B","D">>
Feb30 == Date2024(2, 30)

\* Contracts of 29 days, of 30 days, of 29 days over the end of February, and
\* contracts with no end date, a start that is not a date, an end before the
\* start, and an end date that does not exist
TimingLines ==
    {DatedContractLine(ContractNumber(2), Parks, Acmes, FiveHundred, from, to) :
        <<from, to>> \in {<<Date2024(1, 1), Date2024(1, 30)>>,
                          <<Date2024(1, 1), Date2024(1, 31)>>,
                          <<Date2024(2, 15), Date2024(3, 15)>>,
                          <<Date2024(1, 1), Blank>>,
                          <<ToBeDecided, Date2024(1, 30)>>,
                          <<Date2024(3, 1), Date2024(2, 1)>>,
                          <<Date2024(2, 1), Feb30>>}}

TimingFiles ==
    {Files(<<LicenseLine(Acme, Addr2)>>, con, <<>>) : con \in Tables(TimingLines, MaxLines)}

\* Contract files in which n + 1 contracts last one week, and one lasts a year
ShortCapFiles(n) ==
    Files(<<LicenseLine(Acme, Addr2)>>,
          [k \in 1..(n + 1) |->
              DatedContractLine(ContractNumber(k), Parks, Acmes, FiveHundred,
                                Date2024(1 + (k % 12), 1), Date2024(1 + (k % 12), 8))]
              \o <<ContractLine(Parks, Acmes, FiveHundred)>>,
          <<>>)

\* Contracts that start one in each of the first five months of 2024, and
\* two in June
SpikeFile ==
    Files(<<LicenseLine(Acme, Addr2)>>,
          [k \in 1..7 |->
              DatedContractLine(ContractNumber(k), Parks, Acmes, FiveHundred,
                                Date2024(IF k < 6 THEN k ELSE 6, k), Date2024(12, 31))],
          <<>>)

\* Runs in which some of the paths have no file
MissingInputs ==
    {[Files(<<LicenseLine(Acme, Addr2)>>, ContractFile, <<>>) EXCEPT !.missing = m] :
        m \in (SUBSET Range(InputNames)) \ {{}}}

InitCross ==
    /\ pc = "validate"
    /\ \/ /\ csv \in {Files(lic, ContractFile, tax) :
                         lic \in Tables(LicenseLines, MaxLines),
                         tax \in Tables(TaxLines, MaxRows)}
                     \cup {WideFiles(OverlapCap), WideFiles(OverlapCap + 1)}
                     \cup TaxCapFiles(TaxRowCap) \cup {AgencyFiles(MultiAgencyCap)}
                     \cup TimingFiles \cup {SpikeFile}
                     \cup {ShortCapFiles(TimingCap - 1), ShortCapFiles(TimingCap)}
          /\ levenshtein = TRUE
       \/ /\ csv \in NameFiles \cup MissingInputs
          /\ levenshtein \in BOOLEAN
    /\ licenses = Unused /\ contracts = Unused /\ taxes = Unused /\ clustering = Unused
    /\ name_analysis = Unused /\ timing_analysis = Unused
    /\ agency_analysis = Unused /\ tax_analysis = Unused
    /\ results = Unused /\ report = Unused /\ written = {}
    /\ Started
    /\ NormUnused
    /\ CliUnused

\* main: "if not Path(path).exists()" for the three paths in turn
ValidatePaths ==
    /\ pc = "validate"
    /\ IF csv.missing = {}
       THEN /\ pc' = "construct"
            /\ UNCHANGED <<exit_code, stderr>>
       ELSE LET absent == SelectSeq(InputNames, LAMBDA name : name \in csv.missing)
            IN  Fails(<<absent[1], "file not found">>)
    /\ UNCHANGED <<crossVars, normVars, cliVars, levenshtein>>

\* analyzer = CrossDatasetAnalyzer(licenses_path, contracts_path, taxes_path)
Construct ==
    /\ pc = "construct"
    /\ licenses' = NormalizedLicenses(_load_licenses(csv.licenses))
    /\ contracts' = NormalizedContracts(_load_contracts(csv.contracts))
    /\ taxes' = NormalizedTaxes(_load_taxes(csv.taxes))
    /\ pc' = "clustering"
    /\ UNCHANGED <<csv, timing_analysis, clustering, name_analysis, agency_analysis, tax_analysis,
                   results, report, written, normVars, cliVars, procVars>>

\* address_analysis = self.analyze_address_clustering()
AnalyzeAddressClustering ==
    /\ pc = "clustering"
    /\ \E order \in Orders(SharedAddresses(licenses, taxes)) :
           clustering' = analyze_address_clustering(licenses, taxes,
                                                    DefaultDensityThreshold, order)
    /\ pc' = "clustered"
    /\ UNCHANGED <<csv, timing_analysis, licenses, contracts, taxes, name_analysis, agency_analysis,
                   tax_analysis, results, report, written, normVars, cliVars, procVars>>

\* name_analysis = self.analyze_name_similarity()
AnalyzeCrossNameSimilarity ==
    /\ pc = "clustered"
    /\ name_analysis' = cross_name_similarity(licenses, contracts, taxes, DefaultMatchThreshold)
    /\ pc' = "matched"
    /\ UNCHANGED <<csv, timing_analysis, licenses, contracts, taxes, clustering, agency_analysis,
                   tax_analysis, results, report, written, normVars, cliVars, procVars>>

\* timing_analysis = self.analyze_contract_timing()
AnalyzeContractTiming ==
    /\ pc = "matched"
    /\ timing_analysis' = analyze_contract_timing(contracts)
    /\ pc' = "timed"
    /\ UNCHANGED <<csv, licenses, contracts, taxes, clustering, name_analysis,
                   agency_analysis, tax_analysis, results, report, written, normVars,
                   cliVars, procVars>>

\* agency_analysis = self.analyze_agency_concentration()
AnalyzeAgencyConcentration ==
    /\ pc = "timed"
    /\ agency_analysis' = analyze_agency_concentration(contracts)
    /\ pc' = "agencies"
    /\ UNCHANGED <<csv, timing_analysis, licenses, contracts, taxes, clustering, name_analysis,
                   tax_analysis, results, report, written, normVars, cliVars, procVars>>

\* tax_analysis = self.analyze_tax_delinquent_overlaps()
AnalyzeTaxDelinquentOverlaps ==
    /\ pc = "agencies"
    /\ tax_analysis' = analyze_tax_delinquent_overlaps(licenses, contracts, taxes)
    /\ pc' = "overlaps"
    /\ UNCHANGED <<csv, timing_analysis, licenses, contracts, taxes, clustering, name_analysis,
                   agency_analysis, results, report, written, normVars, cliVars, procVars>>

\* the rest of generate_comprehensive_report: results = the compiled report
CompileReport ==
    /\ pc = "overlaps"
    /\ results' = comprehensive_report(licenses, contracts, taxes, clustering,
                                       name_analysis, timing_analysis, agency_analysis,
                                       tax_analysis)
    /\ pc' = "compiled"
    /\ UNCHANGED <<csv, timing_analysis, licenses, contracts, taxes, clustering, name_analysis,
                   agency_analysis, tax_analysis, report, written, normVars, cliVars,
                   procVars>>

\* report = format_report(results)
FormatReport ==
    /\ pc = "compiled"
    /\ report' = format_report(results)
    /\ pc' = "formatted"
    /\ UNCHANGED <<csv, timing_analysis, licenses, contracts, taxes, clustering, name_analysis,
                   agency_analysis, tax_analysis, results, written, normVars, cliVars,
                   procVars>>

\* The report is written to --output or printed, the results are exported
\* when --json is given, and main returns
WriteOutputs ==
    /\ pc = "formatted"
    /\ \E output \in BOOLEAN, json \in BOOLEAN :
           written' = (IF output THEN {"report file"} ELSE {"stdout"})
                          \cup (IF json THEN {"json file"} ELSE {})
    /\ exit_code' = <<0>>
    /\ pc' = "finished"
    /\ UNCHANGED <<csv, timing_analysis, licenses, contracts, taxes, clustering, name_analysis,
                   agency_analysis, tax_analysis, results, report, stderr, levenshtein,
                   normVars, cliVars>>

NextCross ==
    \/ ValidatePaths
    \/ Construct
    \/ AnalyzeAddressClustering
    \/ AnalyzeCrossNameSimilarity
    \/ AnalyzeContractTiming
    \/ AnalyzeAgencyConcentration
    \/ AnalyzeTaxDelinquentOverlaps
    \/ CompileReport
    \/ FormatReport
    \/ WriteOutputs

SpecCross == InitCross /\ [][NextCross]_vars

\* The two command-line entry points, license-analyzer and analyze_datasets
InitEntry == Init \/ InitCross

NextEntry == Next \/ NextCross

SpecEntry == InitEntry /\ [][NextEntry]_vars

-----------------------------------------------------------------------------
(* The normalizer applied to raw fields: specification SpecNorm *)

\* All concatenations of 1..n fragments drawn from parts
Texts(parts, n) == {Flatten(ps) : ps \in UNION {[1..k -> parts] : k \in 1..n}}

AddrParts == { <<" ">>, <<"\t">>, <<"_">>, <<"S">>, <<"1","0","0">>, <<"M","a","i","n">>,
               <<"S","t","r","e","e","t">>, <<"S","T","R","E","E","T">>, <<"S","T">>,
               <<"a","v","e","n","u","e">> }

NameParts == { <<" ">>, <<".">>, <<"X">>, <<"L","L","C">>, <<" ","l","l","c">>,
               <<" ","L","L","C">>, <<" ","C","o">>, <<" ","I","N","C">>,
               <<" ","C","o","m","p","a","n","y">> }

CurrencyParts == { <<" ">>, <<"$">>, <<",">>, <<".">>, <<"-">>, <<"0">>, <<"1">>,
                   <<"2","5">>, <<"N","/","A">> }

\* a text of more digits than any double has
LongDigits == [i \in 1..(DBL_MAX_10_EXP + 2) |-> "9"]

CurrencyCells ==
    {[t |-> "nan"]}
    \cup {[t |-> "float", v |-> v] :
             v \in {Zero, Fin(FALSE, <<"1","2">>, <<"5">>), Fin(TRUE, <<"3">>, <<>>),
                    Inf(FALSE), Inf(TRUE)}}
    \cup {[t |-> "str", s |-> s] :
             s \in Texts(CurrencyParts, MaxParts) \cup {<<>>, LongDigits, <<"$">> \o LongDigits}}

AddrInputs == {[f |-> "addr", v |-> v] : v \in Texts(AddrParts, MaxParts) \cup {NaN, <<>>}}

NameInputs == {[f |-> "name", v |-> v] : v \in Texts(NameParts, MaxParts) \cup {NaN, <<>>}}

CurrencyInputs == {[f |-> "currency", v |-> v] : v \in CurrencyCells}

InitNorm ==
    /\ pc = "call"
    /\ \/ fin \in AddrInputs
       \/ fin \in NameInputs
       \/ fin \in CurrencyInputs
    /\ fout = <<>>
    /\ levenshtein = TRUE
    /\ Started
    /\ CliUnused
    /\ CrossUnused

\* normalize_addr applied to a raw address
NormalizeAddr ==
    /\ pc = "call" /\ fin.f = "addr"
    /\ fout' = <<normalize_addr(fin.v)>>
    /\ pc' = "once"
    /\ UNCHANGED <<fin, cliVars, crossVars, procVars>>

\* normalize_addr applied to its own result
RenormalizeAddr ==
    /\ pc = "once" /\ fin.f = "addr"
    /\ fout' = Append(fout, normalize_addr(fout[1]))
    /\ pc' = "twice"
    /\ UNCHANGED <<fin, cliVars, crossVars, procVars>>

\* normalize_name applied to a raw name
NormalizeName ==
    /\ pc = "call" /\ fin.f = "name"
    /\ fout' = <<normalize_name(fin.v)>>
    /\ pc' = "once"
    /\ UNCHANGED <<fin, cliVars, crossVars, procVars>>

\* normalize_name applied to its own result
RenormalizeName ==
    /\ pc = "once" /\ fin.f = "name"
    /\ fout' = Append(fout, normalize_name(fout[1]))
    /\ pc' = "twice"
    /\ UNCHANGED <<fin, cliVars, crossVars, procVars>>

\* _parse_currency applied to a cell
ParseCurrency ==
    /\ pc = "call" /\ fin.f = "currency"
    /\ fout' = <<_parse_currency(fin.v)>>
    /\ pc' = "parsed"
    /\ UNCHANGED <<fin, cliVars, crossVars, procVars>>

NextNorm ==
    \/ NormalizeAddr
    \/ RenormalizeAddr
    \/ NormalizeName
    \/ RenormalizeName
    \/ ParseCurrency

SpecNorm == InitNorm /\ [][NextNorm]_vars

-----------------------------------------------------------------------------
(* Claims about the normalizer (SpecNorm) *)

\* C1: address normalization is idempotent: normalize_addr applied to
\* normalize_addr(a) returns normalize_addr(a), for every raw address a.
C1_AddrIdempotent ==
    (pc = "twice" /\ fin.f = "addr") => fout[2] = fout[1]

\* C1 witness: a mixed-case address with a long-form street word and a run of
\* whitespace has been normalized twice, and the first pass changed it.
C1_Witness ==
    /\ pc = "twice" /\ fin.f = "addr"
    /\ ~isna(fin.v)
    /\ \E i \in 1..Len(fin.v) : MatchesAt(fin.v, <<"S","t","r","e","e","t">>, i)
    /\ \E i \in 1..Len(fin.v) : MatchesAt(fin.v, <<" ", " ">>, i)
    /\ \E i \in 1..Len(fout[1]) : WordAt(fout[1], <<"S","T">>, i)
    /\ ~\E i \in 1..Len(fout[1]) : MatchesAt(fout[1], <<"S","T","R","E","E","T">>, i)

\* C2: name normalization is idempotent, also for names that end in two
\* legal-entity suffix words in any order.
C2_NameIdempotent ==
    (pc = "twice" /\ fin.f = "name") => fout[2] = fout[1]

\* C3: _parse_currency never raises and returns a finite number for every
\* cell, and returns 0.0 for a text whose cleaned form does not parse.
C3_ParseCurrencyFinite ==
    (pc = "parsed" /\ fin.f = "currency") =>
        /\ IsFinite(fout[1])
        /\ (fin.v.t = "str" /\ PyFloat(KeepNumeric(fin.v.s)).k = "raise") => fout[1] = Zero

\* the whitespace-separated words of a text
RECURSIVE Words(_)
Words(s) ==
    IF s = <<>> THEN <<>>
    ELSE IF IsSpace(Head(s)) THEN Words(Tail(s))
    ELSE LET stops == {i \in 1..Len(s) : IsSpace(s[i])}
             e     == IF stops = {} THEN Len(s) + 1
                      ELSE CHOOSE i \in stops : \A j \in stops : i <= j
         IN  <<SubSeq(s, 1, e - 1)>> \o Words(SubSeq(s, e, Len(s)))

\* the place of a word in the suffixes list, 0 for any other word
SuffixIndex(w) ==
    IF \E k \in 1..Len(suffixes) : suffixes[k] = w
    THEN CHOOSE k \in 1..Len(suffixes) : suffixes[k] = w
    ELSE 0

Front(ws) == SubSeq(ws, 1, Len(ws) - 1)

\* the words left when trailing suffix words are dropped as long as each one
\* comes later in the suffixes list than the one dropped before it; the first
\* word of a name is never dropped
RECURSIVE DropInListOrder(_, _)
DropInListOrder(ws, k) ==
    IF Len(ws) >= 2 /\ SuffixIndex(ws[Len(ws)]) > k
    THEN DropInListOrder(Front(ws), SuffixIndex(ws[Len(ws)]))
    ELSE ws

\* the words of the raw name, upper-cased
RawWords == Words(upper(fin.v))

Normalized == pc = "once" /\ fin.f = "name" /\ ~isna(fin.v)

\* C12 as stated: at most one trailing suffix word is removed; of a name that
\* ends in two suffix words only the last is removed and the other remains.
C12_AtMostOneSuffixStripped ==
    Normalized =>
        Words(fout[1]) = IF Len(RawWords) >= 2 /\ SuffixIndex(RawWords[Len(RawWords)]) > 0
                         THEN Front(RawWords) ELSE RawWords

\* C12 amended: every suffix pattern is applied once, in list order, to what
\* the patterns before it left: the trailing suffix word is removed, and a
\* suffix word that then ends the name is removed as well exactly when it
\* comes later in the list than the word removed before it.
C12_SuffixesStrippedInListOrder ==
    Normalized => Words(fout[1]) = DropInListOrder(RawWords, 0)

\* a name ending in two suffix words has lost both of them
C12_Witness ==
    /\ Normalized
    /\ Len(RawWords) >= 3
    /\ SuffixIndex(RawWords[Len(RawWords)]) > 0
    /\ SuffixIndex(RawWords[Len(RawWords) - 1]) > SuffixIndex(RawWords[Len(RawWords)])
    /\ Words(fout[1]) = SubSeq(RawWords, 1, Len(RawWords) - 2)

-----------------------------------------------------------------------------
(* Properties of the command-line run (specification Spec) *)

\* The steps of main in order, and the steps already taken
Steps ==
    <<"load", "init", "address", "names", "dba", "temporal", "geographic",
      "summary", "report", "export", "exported", "done">>

StepOf(p) == CHOOSE k \in 1..Len(Steps) : Steps[k] = p

Past(p) == pc \in Range(Steps) /\ StepOf(pc) > StepOf(p)

\* the rows of the analyzed table whose normalized address is a
RowsAt(a) == Len(SelectSeq(data.rows, LAMBDA r : r.address_normalized = a))

Flagged(a) == \E i \in 1..Len(address_density) : address_density[i].address = a

\* C4: for every threshold and every normalized address, the address is in
\* the result of analyze_address_density exactly when the number of license
\* rows grouped under it is at least the threshold.
C4_ThresholdBoundary ==
    Past("address") =>
        \A a \in {data.rows[i].address_normalized : i \in 1..Len(data.rows)} \ {NaN} :
            Flagged(a) <=> RowsAt(a) >= args.address_threshold

\* a non-empty output has every risk_score in [0,1] and the largest equal to 1.0
Bounded(fs) ==
    Len(fs) > 0 =>
        /\ \A i \in 1..Len(fs) : ScoreInUnit(fs[i].risk_score)
        /\ \E i \in 1..Len(fs) : ScoreIsOne(fs[i].risk_score)

OfType(fs, ty) == SelectSeq(fs, LAMBDA f : f.pattern_type = ty)

\* C5: whenever the output of a detector of LicenseAnalyzer (address density,
\* name similarity, each DBA sub-analysis, temporal clustering, geographic
\* concentration) is non-empty, every risk_score is in [0,1] and the maximum
\* risk_score is 1.0.
C5_RiskScoreBound ==
    /\ Past("address") => Bounded(address_density)
    /\ Past("names") => Bounded(name_similarity)
    /\ Past("dba") => /\ Bounded(OfType(dba_patterns, "MULTIPLE_DBAS_PER_BUSINESS"))
                      /\ Bounded(OfType(dba_patterns, "SHARED_DBA"))
    /\ Past("temporal") => Bounded(temporal)
    /\ Past("geographic") => Bounded(geographic)

\* the distinct normalized names in table order, as analyze_name_similarity sees them
NamesSeen == unique(dropna(Column(data.rows, "business_name_normalized")))

Below(a, b) == ~Similar(a, b, args.name_similarity)

\* A is similar to B and to C, B and C are not similar to each other
Hub(A, B, C) ==
    /\ A # B /\ A # C /\ B # C
    /\ Similar(A, B, args.name_similarity)
    /\ Similar(A, C, args.name_similarity)
    /\ Below(B, C)

Together(A, B, C) ==
    \E c \in 1..Len(name_similarity) : {A, B, C} \subseteq Range(name_similarity[c].names)

PositionOf(n) == CHOOSE k \in 1..Len(NamesSeen) : NamesSeen[k] = n

\* A comes before B and C, and no name before A is similar to A, B or C
SeedsFirst(A, B, C) ==
    /\ PositionOf(A) < PositionOf(B)
    /\ PositionOf(A) < PositionOf(C)
    /\ \A k \in 1..(PositionOf(A) - 1) :
           /\ Below(NamesSeen[k], A)
           /\ Below(NamesSeen[k], B)
           /\ Below(NamesSeen[k], C)

\* C6 as stated (python-Levenshtein installed): any three distinct names A, B, C with sim(A,B) and sim(A,C)
\* at least the threshold and sim(B,C) below it are put in one cluster.
C6_HubInOneCluster ==
    (Past("names") /\ levenshtein) =>
        \A A \in Range(NamesSeen), B \in Range(NamesSeen), C \in Range(NamesSeen) :
            Hub(A, B, C) => Together(A, B, C)

\* C6 amended: three such names are put in one cluster when A comes before B
\* and C in the order of the names and no name before A is similar to A, B or C.
C6_SeedHubInOneCluster ==
    (Past("names") /\ levenshtein) =>
        \A A \in Range(NamesSeen), B \in Range(NamesSeen), C \in Range(NamesSeen) :
            (Hub(A, B, C) /\ SeedsFirst(A, B, C)) => Together(A, B, C)

\* names A, B, C as in C6 with A first are clustered together, next to another
\* such triple that a name before its A has split
C6_Witness ==
    /\ Past("names")
    /\ \E A \in Range(NamesSeen), B \in Range(NamesSeen), C \in Range(NamesSeen) :
           Hub(A, B, C) /\ SeedsFirst(A, B, C) /\ Together(A, B, C)

\* the run is the end-to-end scenario: five rows, four of them with the
\* address written '100 Main Street' or '100 MAIN ST', threshold 3
IsScenario ==
    /\ Len(args.data_file.rows) = 5
    /\ Cardinality({i \in 1..5 : args.data_file.rows[i].address \in {AddrStreet, AddrSt}}) = 4
    /\ args.address_threshold = 3

\* C7: in the end-to-end scenario analyze_address_density(threshold=3) returns
\* exactly one finding, keyed '100 MAIN ST', with license_count 4 and
\* risk_score 1.0.
C7_EndToEndDensity ==
    (IsScenario /\ Past("address")) =>
        /\ Len(address_density) = 1
        /\ address_density[1].address = AddrSt
        /\ address_density[1].license_count = 4
        /\ ScoreIsOne(address_density[1].risk_score)

\* The entries of one text section are the leading findings of the exported
\* list, in order, each shown as Shown(finding)
Shows(section, exported, Shown(_)) ==
    /\ Len(section) <= Len(exported)
    /\ \A i \in 1..Len(section) : section[i] = Shown(exported[i])

ShownAddress(f) ==
    [address |-> Truncated(f.address), license_count |-> f.license_count,
     risk_score |-> Fmt6(f.risk_score)]

ShownCluster(f) ==
    [cluster_size |-> f.cluster_size, names |-> ShownList(f.names),
     license_count |-> f.license_count, pattern_type |-> f.pattern_type,
     risk_score |-> Fmt3(f.risk_score)]

ShownDba(f) ==
    [pattern_type |-> f.pattern_type,
     name |-> IF f.pattern_type = "MULTIPLE_DBAS_PER_BUSINESS" THEN <<f.key>> ELSE f.members,
     risk_score |-> Fmt3(f.risk_score)]

ShownWindow(f) ==
    [window_start |-> DateText(f.window_start.iso), window_end |-> DateText(f.window_end.iso),
     license_count |-> f.license_count, risk_score |-> Fmt3(f.risk_score),
     businesses |-> ShownList(f.businesses)]

ShownZip(f) ==
    [zip_code |-> Truncated(f.zip_code), license_count |-> f.license_count,
     unique_addresses |-> f.unique_addresses,
     concentration_ratio |-> Fmt6(f.concentration_ratio),
     risk_score |-> Fmt6(f.risk_score)]

\* The numbers of the executive summary are those of the exported summary
SummaryShown ==
    LET ex == full_report.executive_summary
        js == json_file.summary
        an == js.analyses
    IN  /\ ex.total_licenses = js.total_licenses
        /\ ex.unique_businesses = js.unique_businesses
        /\ ex.unique_addresses = js.unique_addresses
        /\ ex.date_range # Absent =>
               /\ ex.date_range[1].earliest = DateText(js.date_range.earliest.iso)
               /\ ex.date_range[1].latest = DateText(js.date_range.latest.iso)
        /\ ex.address_density # Absent =>
               /\ an.address_density # Absent
               /\ ex.address_density[1].flagged_addresses =
                      an.address_density[1].flagged_addresses
               /\ ex.address_density[1].highest =
                      an.address_density[1].top_addresses[1].license_count
        /\ ex.name_similarity # Absent =>
               /\ an.name_similarity # Absent
               /\ ex.name_similarity[1].clusters_found = an.name_similarity[1].clusters_found
               /\ ex.name_similarity[1].largest =
                      an.name_similarity[1].top_clusters[1].cluster_size
        /\ ex.dba_patterns # Absent =>
               /\ an.dba_patterns # Absent
               /\ ex.dba_patterns[1].anomalies_found = an.dba_patterns[1].anomalies_found
        /\ ex.temporal_clustering # Absent =>
               /\ an.temporal_clustering # Absent
               /\ ex.temporal_clustering[1].clusters_found =
                      an.temporal_clustering[1].clusters_found
               /\ ex.temporal_clustering[1].largest =
                      an.temporal_clustering[1].top_clusters[1].license_count
        /\ ex.geographic_concentration # Absent =>
               /\ an.geographic_concentration # Absent
               /\ ex.geographic_concentration[1].concentrated_zips =
                      an.geographic_concentration[1].concentrated_zips

\* the DBA section shows, per pattern type, the leading exported findings of that type
DbaShown ==
    \A ty \in {"MULTIPLE_DBAS_PER_BUSINESS", "SHARED_DBA"} :
        Shows(OfType(full_report.dba_patterns, ty),
              OfType(json_file.findings.dba_patterns, ty), ShownDba)

ReportInExport ==
    pc = "exported" =>
        /\ SummaryShown
        /\ Shows(full_report.address_density, json_file.findings.address_density,
                 ShownAddress)
        /\ Shows(full_report.name_similarity, json_file.findings.name_similarity,
                 ShownCluster)
        /\ DbaShown
        /\ Shows(full_report.temporal_clustering, json_file.findings.temporal_clustering,
                 ShownWindow)
        /\ Shows(full_report.geographic_concentration,
                 json_file.findings.geographic_concentration, ShownZip)

findings == <<address_density, name_similarity, dba_patterns, temporal, geographic, summary>>

\* C10: every finding the text report shows (per-detector sections and the
\* summary) is in the JSON export of the same run with the same counts, risk
\* scores and keys, the text showing them in its display format; and
\* generating the text report leaves the findings unchanged.
C10_JsonRoundTrip ==
    /\ []ReportInExport
    /\ [][pc = "report" => findings' = findings]_vars

\* a run that exported findings of every detector, one of them with a risk
\* score below 1.0
C10_Witness ==
    /\ pc = "exported"
    /\ Len(full_report.address_density) > 0
    /\ Len(full_report.name_similarity) > 0
    /\ Len(full_report.dba_patterns) > 1
    /\ Len(full_report.temporal_clustering) > 1
    /\ Len(full_report.geographic_concentration) > 0
    /\ \E i \in 1..Len(json_file.findings.temporal_clustering) :
           ~ScoreIsOne(json_file.findings.temporal_clustering[i].risk_score)
    /\ full_report.executive_summary.address_density # Absent

\* the names of cluster c, seed and absorbed members
ClusterNames(c) == Range(name_similarity[c].names)

\* C11: in the result of analyze_name_similarity, for any order of the names
\* and any threshold, no name appears in two clusters, no name appears twice
\* in one cluster, and every cluster has at least 2 names.
C11_ClustersDisjoint ==
    Past("names") =>
        /\ \A c \in 1..Len(name_similarity), d \in 1..Len(name_similarity) :
               c # d => ClusterNames(c) \cap ClusterNames(d) = {}
        /\ \A c \in 1..Len(name_similarity) :
               /\ Cardinality(ClusterNames(c)) = Len(name_similarity[c].names)
               /\ Len(name_similarity[c].names) >= 2
               /\ name_similarity[c].cluster_size = Len(name_similarity[c].names)

\* a cluster was formed and a later name outside it is similar to one of its
\* absorbed members
C11_Witness ==
    /\ Past("names")
    /\ \E c \in 1..Len(name_similarity) :
           \E k \in 2..Len(name_similarity[c].names), n \in Range(NamesSeen) :
               /\ n \notin ClusterNames(c)
               /\ PositionOf(n) > PositionOf(name_similarity[c].names[k])
               /\ Similar(name_similarity[c].names[k], n, args.name_similarity)

\* the data file exists and has the required columns
RequiredPresent ==
    args.data_file.exists /\ RequiredColumns \subseteq args.data_file.columns

Lacks(col) == col \notin args.data_file.columns

\* C15: when the license table has the required columns and lacks any subset
\* of the optional ones, every detector returns normally, with an empty
\* result when it needs an absent column, and the run ends with a complete
\* report and exit status 0.
C15_OptionalColumnsDegrade ==
    RequiredPresent =>
        /\ exit_code # <<1>>
        /\ (Past("dba") /\ Lacks("dba_name")) => dba_patterns = <<>>
        /\ (Past("temporal") /\ Lacks("issue_date")) => temporal = <<>>
        /\ (Past("geographic") /\ Lacks("zip_code")) => geographic = <<>>
        /\ pc \in {"exported", "done"} =>
               /\ exit_code = <<0>>
               /\ DOMAIN full_report =
                      {"executive_summary", "address_density", "name_similarity",
                       "dba_patterns", "temporal_clustering", "geographic_concentration"}

\* the risk scores of a result never increase from one finding to the next
NonIncreasing(fs) ==
    \A i \in 1..(Len(fs) - 1) :
        (~IsNaNScore(fs[i].risk_score) /\ ~IsNaNScore(fs[i + 1].risk_score))
            => ScoreLeq(fs[i + 1].risk_score, fs[i].risk_score)

\* C17: address density, DBA patterns, temporal clustering and geographic
\* concentration return their findings in non-increasing order of risk_score.
C17_SortedByRisk ==
    /\ Past("address") => NonIncreasing(address_density)
    /\ Past("dba") => NonIncreasing(dba_patterns)
    /\ Past("temporal") => NonIncreasing(temporal)
    /\ Past("geographic") => NonIncreasing(geographic)

\* C18: no two findings of analyze_temporal_clustering have the same
\* (window_start, window_end) pair, for any input, window and threshold, also
\* when several licenses share an issue date.
C18_OneFindingPerWindow ==
    Past("temporal") =>
        \A i \in 1..Len(temporal), j \in 1..Len(temporal) :
            (/\ temporal[i].window_start = temporal[j].window_start
             /\ temporal[i].window_end = temporal[j].window_end) => i = j

\* two licenses share an issue date whose window met the threshold, and a
\* license of another date gave a second finding
C18_Witness ==
    /\ Past("temporal")
    /\ Len(temporal) >= 2
    /\ \E i \in 1..Len(data.rows), j \in 1..Len(data.rows) :
           /\ i # j
           /\ data.rows[i].issue_date = data.rows[j].issue_date
           /\ data.rows[i].issue_date # NaT
           /\ \E k \in 1..Len(temporal) :
                  /\ temporal[k].window_start = data.rows[i].issue_date - args.temporal_window
                  /\ temporal[k].window_end = data.rows[i].issue_date + args.temporal_window

-----------------------------------------------------------------------------
(* Properties of CrossDatasetAnalyzer (specification SpecCross) *)

TwelveThousand == Fin(FALSE, <<"1","2","3","4","5">>, <<"6","7">>)

\* C8: a tax record whose total_due is "$12,345.67" is loaded with total_due
\* 12345.67, and one whose total_due is "N/A" with total_due 0.0, never null.
C8_TaxTotalDueParsed ==
    pc \in {"clustering", "clustered"} =>
        \A i \in 1..Len(csv.taxes) :
            /\ csv.taxes[i].total_due = Priced => taxes[i].total_due = TwelveThousand
            /\ csv.taxes[i].total_due = NotApplicable => taxes[i].total_due = Zero

\* the non-empty normalized addresses with a license row and a tax row
Shared == SharedAddresses(licenses, taxes) \ {<<>>}

LicensesAt(a) == SelectSeq(licenses, LAMBDA r : r.address_normalized = a)

TaxesAt(a) == SelectSeq(taxes, LAMBDA r : r.address_normalized = a)

\* the sum, in cents, of the total_due loaded for the tax rows at a, a
\* missing total_due counting nothing
DueAt(a) ==
    LET present == SelectSeq(TaxesAt(a), LAMBDA r : r.total_due.k = "fin")
    IN  sum_ints(Materialized([n \in 1..Len(present) |-> Cents(present[n].total_due)]))

Correct(f) ==
    /\ f.address \in Shared
    /\ f.license_count = Len(LicensesAt(f.address))
    /\ f.tax_delinquent_count = Len(TaxesAt(f.address))
    /\ f.total_tax_due = DueAt(f.address)

Overlaps == clustering.cross_dataset_overlaps

Reported(a) == \E i \in 1..Len(Overlaps) : Overlaps[i].address = a /\ Correct(Overlaps[i])

\* C9 as stated: every non-empty normalized address with a license row and a
\* tax row has an entry in cross_dataset_overlaps with the right counts and
\* the right total_tax_due, for any number of shared addresses.
C9_EverySharedAddressReported ==
    pc = "clustered" => \A a \in Shared : Reported(a)

\* C9 amended: every entry of cross_dataset_overlaps is for a distinct shared
\* address and has the right counts and total; the entries are ordered by
\* risk score, highest first; with at most OverlapCap shared addresses every
\* one of them has an entry, with more there are exactly OverlapCap entries
\* and no address left out has a higher risk score than a reported one.
C9_SharedAddressesReportedUpToCap ==
    pc = "clustered" =>
        /\ \A i \in 1..Len(Overlaps) : Correct(Overlaps[i])
        /\ \A i, j \in 1..Len(Overlaps) : Overlaps[i].address = Overlaps[j].address => i = j
        /\ \A i, j \in 1..Len(Overlaps) : i < j => RiskNum(Overlaps[i]) >= RiskNum(Overlaps[j])
        /\ Cardinality(Shared) <= OverlapCap => \A a \in Shared : Reported(a)
        /\ Cardinality(Shared) > OverlapCap =>
               /\ Len(Overlaps) = OverlapCap
               /\ \A a \in Shared :
                      ~Reported(a) =>
                          \A i \in 1..Len(Overlaps) :
                              RiskNum(Overlaps[i]) >=
                                  CappedTenth(Len(LicensesAt(a)) + Len(TaxesAt(a))).num

\* more shared addresses than the cap: OverlapCap entries, the first of them
\* the address with two tax records and their summed total
C9_Witness ==
    /\ pc = "clustered"
    /\ Cardinality(Shared) > OverlapCap
    /\ Len(Overlaps) = OverlapCap
    /\ Overlaps[1].tax_delinquent_count = 2
    /\ Overlaps[1].total_tax_due = 1234567 + 50000

\* The scored finding collections of CrossDatasetAnalyzer, once the address
\* and the name analyses have run
NamesCompared == pc = "matched" /\ "summary" \in DOMAIN name_analysis

ScoredCollections ==
    <<clustering.cross_dataset_overlaps, clustering.address_density>>
        \o (IF "summary" \in DOMAIN name_analysis
            THEN <<name_analysis.license_contract_matches,
                   name_analysis.license_tax_owner_matches>>
            ELSE <<>>)

Least(a, b) == IF a < b THEN a ELSE b

Distance(a, b) == IF a < b THEN b - a ELSE a - b

\* score = min(1, n / 10)
IsCappedTenth(score, n) == score.num * 10 = Least(n, 10) * score.den

\* score (in thousandths) = round(similarity(a, b) * min(1, n / per), 3), for
\* per = 5 or a multiple of 1000
IsRoundedProduct(score, a, b, n, per) ==
    LET sim == ratio(a, b)
        k   == IF per % 1000 = 0 THEN 1000 ELSE 1
    IN  /\ score.den = 1000
        /\ 2 * Distance(score.num * sim.den * (per \div k),
                        (1000 \div k) * sim.num * Least(n, per)) <= sim.den * (per \div k)

Used(v) == DOMAIN v # {}

\* The run was started on a path at which there is no file
MissingInput ==
    \/ Used(args) /\ ~args.data_file.exists
    \/ Used(csv) /\ csv.missing # {}

\* C14: a run of either entry point on a missing input file is only ever at
\* its start or at its exit; it loads no data, constructs no analyzer, runs no
\* detector and writes no report or export; and when it has exited, its status
\* is 1 and it has printed one error
C14_InputNotFoundTerminal ==
    MissingInput =>
        /\ pc \in {"load", "validate", "exit"}
        /\ ~Used(data) /\ ~Used(summary) /\ ~Used(full_report) /\ ~Used(json_file)
        /\ ~Used(licenses) /\ ~Used(contracts) /\ ~Used(taxes)
        /\ ~Used(clustering) /\ ~Used(name_analysis) /\ ~Used(agency_analysis)
        /\ ~Used(tax_analysis) /\ ~Used(results) /\ ~Used(report)
        /\ written = {}
        /\ pc = "exit" => exit_code = <<1>> /\ Len(stderr) = 1
        /\ pc # "exit" => Started

\* analyze_datasets has exited on a missing taxes file, the other two files
\* being there
C14_Witness ==
    /\ Used(csv)
    /\ csv.missing = {"taxes"}
    /\ pc = "exit"
    /\ exit_code = <<1>>
    /\ stderr = <<<<"taxes", "file not found">>>>

\* C16: when python-Levenshtein is not installed, the result of each of the
\* three matchers carries a reason (an 'error' entry), the detectors after it
\* run, and the comprehensive report is compiled and formatted with all its
\* sections
C16_UnavailableMatcherCarriesReason ==
    ~levenshtein =>
        /\ Past("names") => "error" \in DOMAIN name_similarity
        /\ pc \in {"matched", "timed", "agencies", "overlaps"} =>
               "error" \in DOMAIN name_analysis
        /\ pc = "agencies" => "summary" \in DOMAIN agency_analysis
        /\ pc = "overlaps" => "error" \in DOMAIN tax_analysis
        /\ pc = "formatted" =>
              /\ DOMAIN results.analyses =
                     {"address_clustering", "name_similarity", "contract_timing",
                      "agency_concentration", "tax_delinquent_overlaps"}
              /\ report.sections = ReportSections

\* The tax overlaps have been computed, and no business-owner match was cut
\* by the cap of the list
OverlapsListed ==
    /\ pc = "overlaps"
    /\ "summary" \in DOMAIN tax_analysis
    /\ tax_analysis.summary.business_matches_found <= TaxMatchCap

\* the lines of the tax file with total_due >= 5000
HighValueRows == {i \in 1..Len(taxes) : AtLeast(taxes[i].total_due, HighValueDue)}

Due(i) == Amount(taxes[i].total_due)

\* the owner of tax record i is similar to the name of some license
Linked(i) ==
    /\ Comparable(taxes[i].owner_normalized)
    /\ \E l \in 1..Len(licenses) :
           /\ Comparable(licenses[l].business_name_normalized)
           /\ Similar(taxes[i].owner_normalized, licenses[l].business_name_normalized,
                      OwnerBusinessThreshold)

\* tax record i is in a business-owner match
Compared(i) ==
    \E m \in 1..Len(tax_analysis.business_owner_matches) :
        LET f == tax_analysis.business_owner_matches[m]
        IN  /\ f.tax_owner = taxes[i].owner_name_1
            /\ f.tax_address = taxes[i].address
            /\ f.total_due = taxes[i].total_due

\* C19 as stated: the high-value records compared with the license names
\* are the first 100 in file order
C19_FirstHundredInFileOrder ==
    OverlapsListed =>
        \A i \in HighValueRows :
            Linked(i) =>
                (Compared(i) <=> Cardinality({j \in HighValueRows : j <= i}) <= TaxRowCap)

\* C19 as the code has it: the high-value records compared are the 100 of
\* largest total_due: a record with fewer than 100 other high-value records
\* at least as large is compared, a record with 100 strictly larger ones is
\* not
C19_HundredLargest ==
    OverlapsListed =>
        \A i \in HighValueRows :
            Linked(i) =>
                /\ Cardinality({j \in HighValueRows \ {i} : Due(j) >= Due(i)}) < TaxRowCap
                       => Compared(i)
                /\ Cardinality({j \in HighValueRows : Due(j) > Due(i)}) >= TaxRowCap
                       => ~Compared(i)

\* more than 100 high-value records, and the first of the file, whose owner
\* has a license, is not compared
C19_Witness ==
    /\ OverlapsListed
    /\ tax_analysis.summary.high_value_count > TaxRowCap
    /\ 1 \in HighValueRows
    /\ Linked(1)
    /\ ~Compared(1)

\* the number of distinct agencies in the contracts of a supplier
AgenciesOf(s) ==
    Cardinality({contracts[i].agency : i \in {k \in 1..Len(contracts) : contracts[k].supplier = s}}
                    \ {NaN})

\* the suppliers of the multi_agency_suppliers findings
ListedSuppliers ==
    {agency_analysis.multi_agency_suppliers[i].supplier :
        i \in 1..Len(agency_analysis.multi_agency_suppliers)}

\* C20: every supplier in multi_agency_suppliers has at least 3 distinct
\* agencies, and no supplier with at least 3 that is left out has more
\* distinct agencies than a listed one
C20_TopTwentyByAgencyCount ==
    pc = "agencies" =>
        /\ \A s \in ListedSuppliers : AgenciesOf(s) >= MultiAgencyMin
        /\ \A s \in {contracts[i].supplier : i \in 1..Len(contracts)} \ (ListedSuppliers \cup {NaN}) :
               AgenciesOf(s) >= MultiAgencyMin =>
                   \A t \in ListedSuppliers : AgenciesOf(s) <= AgenciesOf(t)

\* Properties of the matching, the agency and the timing analyses of
\* CrossDatasetAnalyzer (specification SpecCross)

\* Both matchers have run with python-Levenshtein installed
Matched ==
    /\ pc = "overlaps"
    /\ "summary" \in DOMAIN name_analysis
    /\ "summary" \in DOMAIN tax_analysis

LongEnough(normalized) == Len(normalized) >= 3

\* C21: no finding of the four match lists has on either side a name whose
\* normalized form is empty or shorter than 3 characters
C21_ShortNamesExcluded ==
    Matched =>
        /\ \A i \in 1..Len(name_analysis.license_contract_matches) :
               LET f == name_analysis.license_contract_matches[i]
               IN  LongEnough(f.license_name) /\ LongEnough(f.contract_supplier)
        /\ \A i \in 1..Len(name_analysis.license_tax_owner_matches) :
               LET f == name_analysis.license_tax_owner_matches[i]
               IN  LongEnough(f.license_name) /\ LongEnough(f.tax_owner)
        /\ \A i \in 1..Len(tax_analysis.business_owner_matches) :
               LET f == tax_analysis.business_owner_matches[i]
               IN  /\ LongEnough(normalize_name(f.tax_owner))
                   /\ LongEnough(normalize_name(f.business_name))
        /\ \A i \in 1..Len(tax_analysis.supplier_tax_matches) :
               LET f == tax_analysis.supplier_tax_matches[i]
               IN  LongEnough(f.supplier) /\ LongEnough(normalize_name(f.tax_owner))

\* a license, a supplier and the owner of a high-value tax record all have
\* the normalized name 'AB', and the matchers have run
C21_Witness ==
    /\ Matched
    /\ \E l \in 1..Len(licenses), c \in 1..Len(contracts), t \in 1..Len(taxes) :
           /\ licenses[l].business_name_normalized = <<"A", "B">>
           /\ contracts[c].supplier_normalized = <<"A", "B">>
           /\ taxes[t].owner_normalized = <<"A", "B">>
           /\ AtLeast(taxes[t].total_due, HighValueDue)

\* the first line of the license file with the normalized address a
InputPosition(a) ==
    CHOOSE i \in 1..Len(licenses) :
        /\ licenses[i].address_normalized = a
        /\ \A j \in 1..(i - 1) : licenses[j].address_normalized # a

\* the risk score (in tenths) that analyze_address_clustering gives address a
RiskAt(a) == CappedTenth(Len(LicensesAt(a)) + Len(TaxesAt(a))).num

\* C22: the list cross_dataset_overlaps is a function of the input: findings
\* of equal risk score are in the order of the input, and the findings kept
\* by the cap are the first in that order, whatever the order in which the
\* set of shared addresses is iterated
C22_TiesInInputOrder ==
    pc = "clustered" =>
        /\ \A i, j \in 1..Len(Overlaps) :
               (i < j /\ RiskNum(Overlaps[i]) = RiskNum(Overlaps[j]))
                   => InputPosition(Overlaps[i].address) < InputPosition(Overlaps[j].address)
        /\ \A a \in Shared :
               (\A i \in 1..Len(Overlaps) : Overlaps[i].address # a) =>
                   \A i \in 1..Len(Overlaps) :
                       \/ RiskNum(Overlaps[i]) > RiskAt(a)
                       \/ /\ RiskNum(Overlaps[i]) = RiskAt(a)
                          /\ InputPosition(Overlaps[i].address) < InputPosition(a)

\* C29: total_shared_addresses and summary.overlap_count are the number of
\* overlap findings made before the cut to OverlapCap (one per non-empty
\* shared address), and the 'Address Clustering' key finding is raised only
\* when there is an overlap finding
C29_SharedCountMatchesFindings ==
    pc = "compiled" =>
        /\ clustering.total_shared_addresses = Cardinality(Shared)
        /\ clustering.summary.overlap_count = Cardinality(Shared)
        /\ Cardinality(Shared) <= OverlapCap
               => clustering.total_shared_addresses = Len(Overlaps)
        /\ "Address Clustering" \in Range(results.key_findings) => Len(Overlaps) >= 1

\* C27: every risk score of the four scored collections is in [0,1]
C27_ScoresInUnitInterval ==
    pc = "matched" =>
        \A c \in 1..Len(ScoredCollections) :
            \A i \in 1..Len(ScoredCollections[c]) :
                ScoreInUnit(ScoredCollections[c][i].risk_score)

\* the agencies named in the contracts
Agencies == {contracts[i].agency : i \in 1..Len(contracts)} \ {NaN}

SuppliersOf(agency) ==
    {contracts[i].supplier : i \in {k \in 1..Len(contracts) : contracts[k].agency = agency}}
        \ {NaN}

\* the summed contract value, in cents, of the contracts of an agency with
\* the suppliers in S
ValueOf(agency, S) ==
    sum(Column(SelectSeq(contracts, LAMBDA r : r.agency = agency /\ r.supplier \in S),
               "contract_value_numeric"))

\* the three highest-value suppliers of the agency have more than half of
\* its total contract value (values are not negative)
TopThreeHaveMajority(agency) ==
    \E a, b, c \in SuppliersOf(agency) :
        2 * ValueOf(agency, {a, b, c}) > ValueOf(agency, SuppliersOf(agency))

ConcentratedAgencies ==
    {agency_analysis.supplier_concentration[i].agency :
        i \in 1..Len(agency_analysis.supplier_concentration)}

\* C25: an agency is in supplier_concentration exactly when its three
\* highest-value suppliers have strictly more than half of its total
\* contract value
C25_FlaggedIffTopThreeMajority ==
    pc = "agencies" =>
        \A agency \in Agencies :
            agency \in ConcentratedAgencies <=> TopThreeHaveMajority(agency)

-----------------------------------------------------------------------------
(* Properties of the detectors and of the summary (specification Spec) *)

\* the issue dates of the dated licenses
IssueDates ==
    IF "issue_date" \in data.columns
    THEN {data.rows[i].issue_date : i \in 1..Len(data.rows)} \ {NaT}
    ELSE {}

\* the number of dated licenses issued from day lo to day hi, both included
IssuedWithin(lo, hi) ==
    Cardinality({i \in 1..Len(data.rows) :
                    /\ data.rows[i].issue_date # NaT
                    /\ data.rows[i].issue_date >= lo
                    /\ data.rows[i].issue_date <= hi})

\* the windows of the findings of analyze_temporal_clustering
WindowsFound == {<<temporal[k].window_start, temporal[k].window_end>> : k \in 1..Len(temporal)}

\* C23: analyze_temporal_clustering returns a finding for the window
\* [d - window_days, d + window_days] iff some dated license has issue date d
\* and the number of dated licenses issued in that closed interval is at least
\* the threshold; the finding's license_count is that number, and licenses
\* with a missing or unparsable issue date are never counted.
C23_TemporalEmissionRule ==
    Past("temporal") =>
        /\ WindowsFound =
               {<<d - args.temporal_window, d + args.temporal_window>> :
                   d \in {e \in IssueDates :
                             IssuedWithin(e - args.temporal_window, e + args.temporal_window)
                                 >= args.temporal_threshold}}
        /\ \A k \in 1..Len(temporal) :
               temporal[k].license_count =
                   IssuedWithin(temporal[k].window_start, temporal[k].window_end)

\* a window holding exactly threshold dated licenses, one of them on its last
\* day, is found, while another license has no usable issue date
C23_Witness ==
    /\ Past("temporal")
    /\ args.temporal_threshold >= 2
    /\ \E i \in 1..Len(data.rows) : args.data_file.rows[i].issue_date \in {NaT, BadDate}
    /\ \E k \in 1..Len(temporal) :
           /\ temporal[k].license_count = args.temporal_threshold
           /\ \E i \in 1..Len(data.rows) :
                  data.rows[i].issue_date = temporal[k].window_end

\* the ZIP codes of the table
ZipCodes == {data.rows[i].zip_code : i \in 1..Len(data.rows)} \ {NaN}

\* the licenses of a ZIP code
LicensesIn(zip) == {i \in 1..Len(data.rows) : data.rows[i].zip_code = zip}

\* the distinct addresses present in a ZIP code
AddressesIn(zip) == {data.rows[i].address : i \in LicensesIn(zip)} \ {NaN}

ZipsFound == {geographic[k].zip_code : k \in 1..Len(geographic)}

\* the ZIP codes are the ones that have at least zip_threshold licenses
ZipsOverThreshold ==
    ZipsFound = {zip \in ZipCodes : Cardinality(LicensesIn(zip)) >= args.zip_threshold}

\* concentration_ratio = license_count / distinct addresses present, or 0
RatioOverAddressesPresent ==
    \A k \in 1..Len(geographic) :
        LET present == Cardinality(AddressesIn(geographic[k].zip_code))
            cr      == geographic[k].concentration_ratio
        IN  IF present = 0 THEN cr.num = 0
            ELSE cr.num * present = geographic[k].license_count * cr.den

\* C24: a ZIP code is in the result of analyze_geographic_concentration iff
\* its license count is at least zip_threshold; concentration_ratio is
\* license_count divided by the number of distinct addresses present in the
\* ZIP, and 0 when none of its records has an address.
C24_GeographicConcentration ==
    (Past("geographic") /\ "zip_code" \in data.columns /\ "address" \in data.columns) =>
        ZipsOverThreshold /\ RatioOverAddressesPresent

\* a count of the executive summary, 0 when the summary has no such entry
SummaryCount(entry, field) == IF entry = Absent THEN 0 ELSE entry[1][field]

\* C28: in one run of the license CLI, with any values of the thresholds
\* given on the command line, each count of the executive summary
\* (flagged_addresses, clusters_found, concentrated_zips) is the number of
\* findings of the detector whose section is in the same report.
C28_SummaryCountsMatchSections ==
    Past("report") =>
        LET es == full_report.executive_summary
        IN  /\ SummaryCount(es.address_density, "flagged_addresses") = Len(address_density)
            /\ SummaryCount(es.name_similarity, "clusters_found") = Len(name_similarity)
            /\ SummaryCount(es.temporal_clustering, "clusters_found") = Len(temporal)
            /\ SummaryCount(es.geographic_concentration, "concentrated_zips") = Len(geographic)

\* the names that are in no cluster of the result
Unclustered == Range(NamesSeen) \ UNION {ClusterNames(c) : c \in 1..Len(name_similarity)}

\* the name was in no cluster yet when the seed of cluster c was processed
UnclaimedAt(n, c) ==
    \A d \in 1..Len(name_similarity) :
        PositionOf(name_similarity[d].names[1]) < PositionOf(name_similarity[c].names[1])
            => n \notin ClusterNames(d)

\* C30: the forward-only scan of the greedy clustering loses no match. When
\* a seed is processed, every still-unclaimed name, before or after the seed
\* in the name order, whose ratio to the seed is at least the threshold ends
\* up in the seed's cluster; and no two names outside every cluster have a
\* ratio of at least the threshold to each other.
C30_ForwardScanLosesNoMatch ==
    (Past("names") /\ levenshtein) =>
        /\ \A c \in 1..Len(name_similarity), n \in Range(NamesSeen) :
               (/\ UnclaimedAt(n, c)
                /\ Similar(name_similarity[c].names[1], n, args.name_similarity))
                   => n \in ClusterNames(c)
        /\ \A a \in Unclustered, b \in Unclustered :
               a # b => ~Similar(a, b, args.name_similarity)

\* a seed that is not the first name formed a cluster with a name after it,
\* while an earlier name, unclaimed when the seed was processed, is in no
\* cluster
C30_Witness ==
    /\ Past("names") /\ levenshtein
    /\ \E c \in 1..Len(name_similarity), n \in Unclustered :
           /\ PositionOf(n) < PositionOf(name_similarity[c].names[1])
           /\ UnclaimedAt(n, c)

\* the lines of the contracts file with both dates and fewer than 30 days
\* from effective_from to effective_to
ShortContracts ==
    {i \in 1..Len(contracts) :
        /\ contracts[i].effective_from # NaT /\ contracts[i].effective_to # NaT
        /\ contracts[i].effective_to - contracts[i].effective_from < ShortDays}

ShortFindings == timing_analysis.short_duration_contracts

\* finding k is for line i of the contracts file
FindingOf(k, i) ==
    /\ ShortFindings[k].contract_number = contracts[i].contract_number
    /\ ShortFindings[k].supplier = contracts[i].supplier
    /\ ShortFindings[k].agency = contracts[i].agency
    /\ ShortFindings[k].duration_days = contracts[i].effective_to - contracts[i].effective_from
    /\ ShortFindings[k].pattern_type = "SHORT_DURATION"

\* every finding is for a short contract
OnlyShortContracts ==
    \A k \in 1..Len(ShortFindings) : \E i \in ShortContracts : FindingOf(k, i)

\* C26 as stated: every contract with both dates and a duration under 30
\* days is a SHORT_DURATION finding of short_duration_contracts, no other
\* contract is, and the number of findings is summary.short_duration_count.
C26_EveryShortContractFlagged ==
    pc = "timed" =>
        /\ OnlyShortContracts
        /\ \A i \in ShortContracts : \E k \in 1..Len(ShortFindings) : FindingOf(k, i)
        /\ Len(ShortFindings) = timing_analysis.summary.short_duration_count

\* the k-th short contract of the file
ShortInFileOrder == SortedInts(ShortContracts)

\* C26 amended: short_duration_contracts holds, in file order, the first 50
\* contracts with both dates and a duration under 30 days (an end before the
\* start included), one finding per contract and no other contract;
\* summary.short_duration_count is the number of all such contracts.
C26_FirstFiftyShortContracts ==
    pc = "timed" =>
        /\ Len(ShortFindings) =
               (IF Cardinality(ShortContracts) < TimingCap
                THEN Cardinality(ShortContracts) ELSE TimingCap)
        /\ \A k \in 1..Len(ShortFindings) : FindingOf(k, ShortInFileOrder[k])
        /\ timing_analysis.summary.short_duration_count = Cardinality(ShortContracts)

\* 51 contracts of one week and one of a year: 50 findings, a count of 51
C26_Witness ==
    /\ pc = "timed"
    /\ Cardinality(ShortContracts) = TimingCap + 1
    /\ Len(contracts) > Cardinality(ShortContracts)
    /\ Len(ShortFindings) = TimingCap

====
